---------------------------- MODULE Spec2Model ----------------------------
(***************************************************************************)
(* A model of the genai-tools tool registry: the name-keyed collection of *)
(* type-erased tool handlers (registry.rs), the JSON boundary of a tool   *)
(* (traits.rs, ToolFunction::call_json) and the single and batch          *)
(* execution of tool calls (execute_call, execute_calls).                 *)
(***************************************************************************)
EXTENDS Integers, Sequences, FiniteSets, TLC

\* Longest slice of tool calls handed to execute_calls.
MaxCalls == 2

\* Longest sequence of tools registered into the registry that merge consumes.
MaxOther == 2

\* The most calls in flight at a time when two operations run side by side.
MaxConc == 3

\* The longest string literal in the arguments of #[tool_function].
MaxLit == 2

\* The longest input of to_upper_camel_case.
MaxWord == 4

(***************************************************************************)
(* serde_json::Value.  Every value is a record of the same shape: its kind *)
(* k, its string s, its number n and, for an object, its members o (a      *)
(* function from member name to scalar value).                             *)
(***************************************************************************)
NoMembers == [m \in {} |-> 0]

JNull == [k |-> "null", s |-> "", n |-> 0, o |-> NoMembers]

JStr(str) == [k |-> "string", s |-> str, n |-> 0, o |-> NoMembers]

JNum(num) == [k |-> "number", s |-> "", n |-> num, o |-> NoMembers]

JObj(members) == [k |-> "object", s |-> "", n |-> 0, o |-> members]

\* The member names the model uses, in the order of serde_json's Map (a BTreeMap:
\* ascending by key).
KeyOrder == <<"a", "b", "count", "name", "status_text">>

\* The fn_arguments a caller may send.
Arguments ==
    { JObj([a |-> JStr("x"), b |-> JNum(1)]),
      JObj(NoMembers),
      JObj([a |-> JNum(1)]),
      JObj([a |-> JStr("")]),
      JObj([a |-> JStr("y")]) }

(***************************************************************************)
(* Errors.  Every failure is a Box<dyn Error + Send + Sync>: the model     *)
(* keeps the concrete type behind the box (ety) and its Display text (msg, *)
(* a sequence of text pieces).                                             *)
(***************************************************************************)
NoError == [ety |-> "", msg |-> <<>>]

\* A not-found error that does not say which name.
NotFoundErrorAnon(fn_name) == [ety |-> "String", msg |-> <<"Tool not found in registry">>]

\* registry.rs:127: format!("Tool '{}' not found in registry", fn_name), boxed from String.
NotFoundError(fn_name) ==
    [ety |-> "String", msg |-> <<"Tool '", fn_name, "' not found in registry">>]

\* traits.rs:67 and 73: a serde_json::Error, boxed as it is.
SerdeError(msg) == [ety |-> "serde_json::Error", msg |-> msg]

\* The tool's error replaced by a new error around its text.
HandlerErrorWrapped(e) ==
    [ety |-> "String", msg |-> <<"Tool execution failed: ">> \o e.msg]

\* traits.rs:70: the tool's own error, boxed as it is (its Display text is kept).
HandlerError(e) == e

(***************************************************************************)
(* The tools.  T1 and T2 are two tools that answer to the same name "x"    *)
(* (after integration_test_tool and minimal_tool of tests/integration.rs, *)
(* which share their parameter and output types); T3 answers to "y" and    *)
(* takes an enumerated parameter; its output type has a Serialize that    *)
(* fails for the variant "y" (serde_json cannot encode every Serialize     *)
(* type: a map with a key that is no string, a Serialize that reports an   *)
(* error).                                                                 *)
(***************************************************************************)
ToolIds == {"T1", "T2", "T3"}

Names == {"x", "y"}

\* ToolFunction::name: a &'static str, constant for the tool.
ToolName(t) == IF t = "T3" THEN "y" ELSE "x"

\* ToolFunction::description.
ToolDescription(t) ==
    CASE t = "T1" -> "A comprehensive integration test tool"
      [] t = "T2" -> "Tool with minimal configuration"
      [] OTHER -> "Tool function: y"

\* The variants of the enumerated parameter of T3 (serde renames, as Status).
Variants == {"x", "y"}

\* The parameter type of each tool, field by field: "String", "Option<i32>" or "enum".
ParamFields(t) ==
    IF t = "T3" THEN [a |-> "enum"] ELSE [a |-> "String", b |-> "Option<i32>"]


\* ToolFunction::schema: the JSON schema of the parameter type (schemars): the
\* properties with their types, and the required ones, those that are no Option.
ToolSchema(t) ==
    [type |-> "object",
     properties |-> ParamFields(t),
     required |-> {f \in DOMAIN ParamFields(t) : ParamFields(t)[f] # "Option<i32>"}]

(***************************************************************************)
(* Decoding fn_arguments into the tool's parameter type                    *)
(* (serde_json::from_value::<Self::Params>, traits.rs:66).  A decoded      *)
(* field is a record [some, s, n]: a String or an enum variant in s, an    *)
(* Option<i32> in some and n.                                              *)
(***************************************************************************)
NoField == [some |-> FALSE, s |-> "", n |-> 0]

DecodeOk(val) == [ok |-> TRUE, val |-> val, err |-> NoError]

DecodeErr(msg) == [ok |-> FALSE, val |-> NoField, err |-> SerdeError(msg)]

\* One member v decoded as a field of type ty.
DecodeField(ty, v) ==
    CASE ty = "String" ->
           IF v.k = "string" THEN DecodeOk([some |-> TRUE, s |-> v.s, n |-> 0])
           ELSE DecodeErr(<<"invalid type: ", v.k, ", expected a string">>)
      [] ty = "Option<i32>" ->
           IF v.k = "null" THEN DecodeOk(NoField)
           ELSE IF v.k = "number" THEN DecodeOk([some |-> TRUE, s |-> "", n |-> v.n])
           ELSE DecodeErr(<<"invalid type: ", v.k, ", expected i32">>)
      [] OTHER ->
           IF v.k # "string"
           THEN DecodeErr(<<"invalid type: ", v.k, ", expected string or map">>)
           ELSE IF v.s \in Variants THEN DecodeOk([some |-> TRUE, s |-> v.s, n |-> 0])
           ELSE DecodeErr(<<"unknown variant ", v.s>>)

\* A decoding that fills in every field the arguments leave out.
MissingFieldDefaulted(ty, f) == DecodeOk(NoField)

\* A field that the arguments leave out: None for an Option, an error otherwise.
MissingField(ty, f) ==
    IF ty = "Option<i32>" THEN DecodeOk(NoField)
    ELSE DecodeErr(<<"missing field ", f>>)

\* The first of the keys S in the map's order.
FirstKey(S) ==
    KeyOrder[CHOOSE i \in 1..Len(KeyOrder) :
                /\ KeyOrder[i] \in S
                /\ \A j \in 1..Len(KeyOrder) : KeyOrder[j] \in S => i <= j]

StructErr(e) == [ok |-> FALSE, p |-> NoMembers, err |-> e]

\* The members o of an object decoded as the fields F, given the members that do not
\* decode (bad) and the fields left out that cannot be (left).
DecodeMembers(F, o, bad, left) ==
    IF bad # {} THEN StructErr(DecodeField(F[FirstKey(bad)], o[FirstKey(bad)]).err)
    ELSE IF left # {} THEN StructErr(MissingField(F[FirstKey(left)], FirstKey(left)).err)
    ELSE [ok |-> TRUE,
          p |-> [f \in DOMAIN F |->
                    IF f \in DOMAIN o THEN DecodeField(F[f], o[f]).val
                    ELSE MissingField(F[f], f).val],
          err |-> NoError]

\* serde's derived Deserialize for a struct with fields F: the members are visited in
\* the map's order and the first one that does not decode is the error; members that
\* are no field are ignored; after that, the fields left out are filled in or
\* reported.
DecodeStruct(F, args) ==
    IF args.k # "object"
    THEN StructErr(SerdeError(<<"invalid type: ", args.k, ", expected struct">>))
    ELSE DecodeMembers(F, args.o,
             {f \in DOMAIN F \cap DOMAIN args.o : ~DecodeField(F[f], args.o[f]).ok},
             {f \in DOMAIN F \ DOMAIN args.o : ~MissingField(F[f], f).ok})

DecodeParams(t, args) == DecodeStruct(ParamFields(t), args)

(***************************************************************************)
(* The tools' operations (ToolFunction::call) on decoded parameters.       *)
(***************************************************************************)
\* An output: its fields, and whether its Serialize succeeds.
NoOutput == [name |-> "", count |-> 0, status_text |-> "", serializable |-> TRUE]

CallOk(out) == [ok |-> TRUE, out |-> out, err |-> NoError]

CallErr(e) == [ok |-> FALSE, out |-> NoOutput, err |-> e]

CountOf(p) == IF "b" \in DOMAIN p /\ p.b.some THEN p.b.n ELSE 0

\* T1 rejects an empty name with its own error (IntegrationError::ValidationFailed);
\* T2 and T3 never fail.
Call(t, p) ==
    CASE t = "T1" ->
           IF p.a.s = ""
           THEN CallErr([ety |-> "IntegrationError",
                         msg |-> <<"Validation failed: ", "Name cannot be empty">>])
           ELSE CallOk([name |-> p.a.s, count |-> CountOf(p),
                        status_text |-> "Currently active", serializable |-> TRUE])
      [] t = "T2" ->
           CallOk([name |-> p.a.s, count |-> CountOf(p), status_text |-> "minimal",
                   serializable |-> TRUE])
      [] OTHER ->
           CallOk([name |-> p.a.s, count |-> 0, status_text |-> "Awaiting activation",
                   serializable |-> p.a.s # "y"])

(***************************************************************************)
(* Encoding: serde_json::to_value of the tool's output (traits.rs:72) and  *)
(* serde_json::to_string of that value (registry.rs:133).  The text is a   *)
(* sequence of pieces.                                                     *)
(***************************************************************************)
ToValue(out) ==
    IF ~out.serializable
    THEN [ok |-> FALSE, v |-> JNull, err |-> SerdeError(<<"key must be a string">>)]
    ELSE [ok |-> TRUE,
          v |-> JObj([count |-> JNum(out.count), name |-> JStr(out.name),
                      status_text |-> JStr(out.status_text)]),
          err |-> NoError]

DigitChars == <<"0", "1", "2", "3", "4", "5", "6", "7", "8", "9">>

RECURSIVE DecimalText(_)
DecimalText(n) ==
    IF n < 0 THEN <<"-">> \o DecimalText(-n)
    ELSE IF n < 10 THEN <<DigitChars[n + 1]>>
    ELSE DecimalText(n \div 10) \o <<DigitChars[(n % 10) + 1]>>

ScalarText(v) ==
    CASE v.k = "string" -> <<"\"", v.s, "\"">>
      [] v.k = "number" -> DecimalText(v.n)
      [] OTHER -> <<"null">>

RECURSIVE MembersText(_, _, _)
MembersText(o, i, first) ==
    IF i > Len(KeyOrder) THEN <<>>
    ELSE IF KeyOrder[i] \notin DOMAIN o THEN MembersText(o, i + 1, first)
    ELSE (IF first THEN <<>> ELSE <<",">>)
         \o <<"\"", KeyOrder[i], "\"", ":">> \o ScalarText(o[KeyOrder[i]])
         \o MembersText(o, i + 1, FALSE)

ToJsonString(v) ==
    IF v.k = "object" THEN <<"{">> \o MembersText(v.o, 1, TRUE) \o <<"}">>
    ELSE ScalarText(v)

(***************************************************************************)
(* ToolFunction::call_json (traits.rs:64-75), as the one result it comes   *)
(* to: decode, call, encode, the first failure deciding.                   *)
(***************************************************************************)
JsonOk(v) == [ok |-> TRUE, v |-> v, err |-> NoError]

JsonErr(e) == [ok |-> FALSE, v |-> JNull, err |-> e]

\* A call_json that returns null for an output it cannot encode.
CallJsonEncodedLossy(r, e) ==
    IF ~r.ok THEN JsonErr(HandlerError(r.err))
    ELSE IF ~e.ok THEN JsonOk(JNull)
    ELSE JsonOk(e.v)

\* What call_json returns once the tool's operation has returned r, given the
\* encoding e of r's output.
CallJsonEncoded(r, e) ==
    IF ~r.ok THEN JsonErr(HandlerError(r.err))
    ELSE IF ~e.ok THEN JsonErr(e.err)
    ELSE JsonOk(e.v)

CallJsonFinish(r) == CallJsonEncoded(r, ToValue(r.out))

\* call_json on arguments that decoded as d.
CallJsonDecoded(t, d) ==
    IF ~d.ok THEN JsonErr(d.err) ELSE CallJsonFinish(Call(t, d.p))

CallJson(t, params) == CallJsonDecoded(t, DecodeParams(t, params))

(***************************************************************************)
(* The registry's map, tools: HashMap<String, Box<dyn ToolHandler>>, as    *)
(* its set of entries <<key, handler>>.                                    *)
(***************************************************************************)
Keys(m) == {e[1] : e \in m}

\* An insertion into a list of entries: the entry of the key, if any, is kept as
\* well.
HashMapInsertAppend(m, key, h) == m \cup {<<key, h>>}

\* HashMap::insert: the entry of the key, if any, is replaced.
HashMapInsert(m, key, h) == {e \in m : e[1] # key} \cup {<<key, h>>}

\* HashMap::get of a key the map holds.
Handler(m, key) == (CHOOSE e \in m : e[1] = key)[2]

\* HashMap::extend: every entry of the other map is inserted.
RECURSIVE HashMapExtend(_, _)
HashMapExtend(m, rest) ==
    IF rest = {} THEN m
    ELSE LET e == CHOOSE x \in rest : TRUE
         IN  HashMapExtend(HashMapInsert(m, e[1], e[2]), rest \ {e})

new == {}

\* A registration that keeps the handler a name already has.
register_function_if_absent(m, tool) ==
    IF ToolName(tool) \in Keys(m) THEN m ELSE m \cup {<<ToolName(tool), tool>>}

\* A registration under the handler's type instead of its name.
register_function_by_type(m, tool) == HashMapInsert(m, tool, tool)

register_function(m, tool) == HashMapInsert(m, ToolName(tool), tool)

\* A register_functions that keeps the handler a name already has.
RECURSIVE register_functions_keep_first(_, _)
register_functions_keep_first(m, ts) ==
    IF ts = <<>> THEN m
    ELSE register_functions_keep_first(register_function_if_absent(m, Head(ts)), Tail(ts))

\* register_functions: register_function on each tool of the Vec, in its order.
RECURSIVE register_functions(_, _)
register_functions(m, ts) ==
    IF ts = <<>> THEN m
    ELSE register_functions(register_function(m, Head(ts)), Tail(ts))

has_tool(m, name) == name \in Keys(m)

tool_names(m) == Keys(m)

len(m) == Cardinality(m)

is_empty(m) == m = {}

\* A removal with the test the wrong way round: it keeps the entry of the name and
\* removes the others.
remove_tool_others(m, name) == {e \in m : e[1] = name}

\* remove_tool: the map afterwards, and the value returned.
remove_tool(m, name) == {e \in m : e[1] # name}

\* A removal that reports success whatever the map held.
remove_tool_returns_true(m, name) == TRUE

remove_tool_returns(m, name) == \E e \in m : e[1] = name

\* A clear that removes one entry.
clear_one(m) == IF m = {} THEN m ELSE m \ {CHOOSE e \in m : TRUE}

clear(m) == {}

\* A merge in which the entries already held win.
merge_keep_existing(m, other) == m \cup {e \in other : e[1] \notin Keys(m)}

merge(m, other) == HashMapExtend(m, other)

\* A descriptor with the tool's name where its description belongs.
DescriptorNameTwice(t) ==
    [name |-> ToolName(t), description |-> ToolName(t), schema |-> ToolSchema(t)]

\* genai::chat::Tool of a handler (registry.rs:93-95).
Descriptor(t) ==
    [name |-> ToolName(t), description |-> ToolDescription(t), schema |-> ToolSchema(t)]

\* The orders in which HashMap::values may yield the handlers of m.
ValuesOrders(m) ==
    {ord \in [1..Cardinality(m) -> m] : \A i, j \in 1..Cardinality(m) : ord[i] = ord[j] => i = j}

\* get_tools, when values() yields the entries in the order ord.
get_tools(m, ord) == [i \in 1..Len(ord) |-> Descriptor(ord[i][2])]

(***************************************************************************)
(* #[tool_function(...)] (genai-tools-macros/src/lib.rs): the attribute's   *)
(* arguments as the text args.to_string() gives, a sequence of characters. *)
(***************************************************************************)
\* The characters of the string literals: a letter, a comma and a double quote.
LitChars == {"a", ",", "\""}

LitValues == UNION {[1..n -> LitChars] : n \in 0..MaxLit}

\* An attribute argument that is given, with the value of its literal, or is not.
NoLit == [some |-> FALSE, v |-> <<>>]

SomeLit(v) == [some |-> TRUE, v |-> v]

OptLits == {NoLit} \cup {SomeLit(v) : v \in LitValues}

\* The identifiers of the annotated functions.
Idents == {<<"f">>, <<"g">>}

\* A string's value as it is written between the quotes of a literal: a quote and
\* a backslash are escaped.
RECURSIVE Escaped(_)
Escaped(v) ==
    IF v = <<>> THEN <<>>
    ELSE (IF Head(v) \in {"\"", "\\"} THEN <<"\\", Head(v)>> ELSE <<Head(v)>>)
         \o Escaped(Tail(v))

\* A literal token as TokenStream::to_string prints it: as it is written.
LiteralText(v) == <<"\"">> \o Escaped(v) \o <<"\"">>

KwName == <<"n", "a", "m", "e">>

KwDescription == <<"d", "e", "s", "c", "r", "i", "p", "t", "i", "o", "n">>

\* args.to_string() (lib.rs:30) of the arguments name = "N", description = "D",
\* each given or not.
ArgsText(n, d) ==
    (IF n.some THEN KwName \o <<" ", "=", " ">> \o LiteralText(n.v) ELSE <<>>)
    \o (IF n.some /\ d.some THEN <<",", " ">> ELSE <<>>)
    \o (IF d.some THEN KwDescription \o <<" ", "=", " ">> \o LiteralText(d.v) ELSE <<>>)

\* str::split(','): the pieces between the commas.
RECURSIVE SplitComma(_, _)
SplitComma(s, piece) ==
    IF s = <<>> THEN <<piece>>
    ELSE IF Head(s) = "," THEN <<piece>> \o SplitComma(Tail(s), <<>>)
    ELSE SplitComma(Tail(s), Append(piece, Head(s)))

RECURSIVE TrimStart(_)
TrimStart(s) == IF s # <<>> /\ Head(s) = " " THEN TrimStart(Tail(s)) ELSE s

RECURSIVE TrimEnd(_)
TrimEnd(s) ==
    IF s # <<>> /\ s[Len(s)] = " " THEN TrimEnd(SubSeq(s, 1, Len(s) - 1)) ELSE s

\* str::trim
Trim(s) == TrimEnd(TrimStart(s))

NoStr == [some |-> FALSE, v |-> <<>>]

SomeStr(v) == [some |-> TRUE, v |-> v]

\* str::strip_prefix
StripPrefix(s, pre) ==
    IF Len(s) >= Len(pre) /\ SubSeq(s, 1, Len(pre)) = pre
    THEN SomeStr(SubSeq(s, Len(pre) + 1, Len(s)))
    ELSE NoStr

\* The text between the first and the last character of eq_part, if these are
\* double quotes (lib.rs:152-154).
Unquoted(eq_part) ==
    IF Len(eq_part) >= 2 /\ eq_part[1] = "\"" /\ eq_part[Len(eq_part)] = "\""
    THEN SomeStr(SubSeq(eq_part, 2, Len(eq_part) - 1))
    ELSE NoStr

\* extract_string_literal (lib.rs:148-157)
extract_string_literal(input) ==
    IF StripPrefix(Trim(input), <<"=">>).some
    THEN Unquoted(Trim(StripPrefix(Trim(input), <<"=">>).v))
    ELSE NoStr

\* What one part of the arguments makes of tool_name and tool_description
\* (lib.rs:34-44): part is trimmed already.
ParsePart(acc, part) ==
    IF StripPrefix(part, KwName).some
    THEN IF extract_string_literal(StripPrefix(part, KwName).v).some
         THEN [acc EXCEPT !.name = extract_string_literal(StripPrefix(part, KwName).v)]
         ELSE acc
    ELSE IF StripPrefix(part, KwDescription).some
    THEN IF extract_string_literal(StripPrefix(part, KwDescription).v).some
         THEN [acc EXCEPT
                 !.description = extract_string_literal(StripPrefix(part, KwDescription).v)]
         ELSE acc
    ELSE acc

\* The loop over args_str.split(',') (lib.rs:33-44).
RECURSIVE ParseParts(_, _)
ParseParts(acc, parts) ==
    IF parts = <<>> THEN acc
    ELSE ParseParts(ParsePart(acc, Trim(Head(parts))), Tail(parts))

\* tool_name and tool_description after the arguments are parsed (lib.rs:26-44).
ParseArgs(text) ==
    IF text = <<>> THEN [name |-> NoStr, description |-> NoStr]
    ELSE ParseParts([name |-> NoStr, description |-> NoStr], SplitComma(text, <<>>))

\* The characters of the inputs of to_upper_camel_case: a lower-case letter, an
\* upper-case letter, the underscore, and "sz", which stands for the one character
\* U+00DF, whose upper case is the two characters "SS".
CaseChars == {"a", "B", "_", "sz"}

CaseInputs == UNION {[1..n -> CaseChars] : n \in 0..MaxWord}

\* char::to_uppercase: the characters a character maps to.
ToUppercase(c) ==
    CASE c = "a" -> <<"A">>
      [] c = "b" -> <<"B">>
      [] c = "f" -> <<"F">>
      [] c = "g" -> <<"G">>
      [] c = "sz" -> <<"S", "S">>
      [] OTHER -> <<c>>

\* The lower case of one character.
ToLowercaseChar(c) ==
    CASE c = "A" -> "a"
      [] c = "B" -> "b"
      [] c = "S" -> "s"
      [] OTHER -> c

\* str::to_lowercase
ToLowercase(s) == [i \in 1..Len(s) |-> ToLowercaseChar(s[i])]

\* str::split('_'): the pieces between the underscores, the empty ones included;
\* piece is the piece being read.
RECURSIVE SplitUnderscore(_, _)
SplitUnderscore(s, piece) ==
    IF s = <<>> THEN <<piece>>
    ELSE IF Head(s) = "_" THEN <<piece>> \o SplitUnderscore(Tail(s), <<>>)
    ELSE SplitUnderscore(Tail(s), Append(piece, Head(s)))

\* A word whose first character is upper-cased and whose other characters are
\* left as they are.
CamelWordKeepingRest(word) ==
    IF word = <<>> THEN <<>> ELSE ToUppercase(Head(word)) \o Tail(word)

\* lib.rs:9-15: the closure applied to each word.
CamelWord(word) ==
    IF word = <<>> THEN <<>> ELSE ToUppercase(Head(word)) \o ToLowercase(Tail(word))

\* Iterator::collect::<String>() of the words: their concatenation.
RECURSIVE CollectString(_)
CollectString(words) ==
    IF words = <<>> THEN <<>> ELSE Head(words) \o CollectString(Tail(words))

\* A conversion that upper-cases the first character of each word and no more.
to_upper_camel_case_keeping_rest(input) ==
    CollectString([i \in 1..Len(SplitUnderscore(input, <<>>)) |->
                      CamelWordKeepingRest(SplitUnderscore(input, <<>>)[i])])

\* lib.rs:6-17
to_upper_camel_case(input) ==
    CollectString([i \in 1..Len(SplitUnderscore(input, <<>>)) |->
                      CamelWord(SplitUnderscore(input, <<>>)[i])])

\* A name that defaults to the name of the generated struct.
GeneratedNameOfStruct(parsed, ident) ==
    IF parsed.name.some THEN parsed.name.v ELSE ident \o <<"Tool">>

\* lib.rs:46: tool_name.unwrap_or_else(|| input_fn.sig.ident.to_string())
GeneratedName(parsed, ident) == IF parsed.name.some THEN parsed.name.v ELSE ident

\* lib.rs:47: tool_description.unwrap_or_else(|| format!("Tool function: {}", tool_name))
GeneratedDescription(parsed, tool_name) ==
    IF parsed.description.some THEN parsed.description.v
    ELSE <<"Tool function: ">> \o tool_name

\* tool_function: what name() and description() of the generated tool return
\* (lib.rs:115-121), for the arguments n and d on the function ident.
tool_function(n, d, ident) ==
    [name |-> GeneratedName(ParseArgs(ArgsText(n, d)), ident),
     description |->
         GeneratedDescription(ParseArgs(ArgsText(n, d)),
                              GeneratedName(ParseArgs(ArgsText(n, d)), ident))]

(***************************************************************************)
(* The state.                                                              *)
(***************************************************************************)
VARIABLES
    tools,      \* the registry's map
    last,       \* the registry operation run last: its arguments, the map before it, its
                \* result, and the operation before it
    mode,       \* "idle", "call" (an execute_call is awaited) or "calls" (an execute_calls)
    reqs,       \* the tool calls of the operation awaited
    elems,      \* per call, its future: "new", "susp", "woken", "done" or "dropped"
    yielded,    \* per call, what its future returned when it became ready
    cnt,        \* per call, how often call_json and the tool's call were entered
    order,      \* the indices of the calls in the order their invocations completed
    outcome,    \* what the awaited operation resolved to
    bg,         \* a second operation in flight on the same registry, while the task
                \* that awaits it is not the one running
    expansion   \* a use of #[tool_function]: the attribute's arguments, the function's
                \* identifier, and what name() and description() of the generated
                \* tool return

vars == <<tools, last, mode, reqs, elems, yielded, cnt, order, outcome, bg, expansion>>

exec == <<mode, reqs, elems, yielded, cnt, order, outcome>>

CallIds == {"c1", "c2"}

\* genai::chat::ToolCall
ToolCalls == [call_id : CallIds, fn_name : Names, fn_arguments : Arguments]

\* The registry operation before the last one: which, on what name, what it returned.
NoPrior == [op |-> "new", name |-> "", ret |-> FALSE]

\* What has_tool, tool_names, len and is_empty returned, when they were called.
NoQuery == [has |-> FALSE, names |-> {}, count |-> 0, empty |-> TRUE]

NoLast ==
    [op |-> "new", tool |-> "", name |-> "", ret |-> FALSE, pre |-> {}, other |-> {},
     prior |-> NoPrior, descs |-> <<>>, seq |-> <<>>, query |-> NoQuery]

Prior == [op |-> last.op, name |-> last.name, ret |-> last.ret]

NoResponse == [call_id |-> "", content |-> <<>>]

NoResult == [some |-> FALSE, ok |-> FALSE, resp |-> NoResponse, err |-> NoError]

Ok(resp) == [some |-> TRUE, ok |-> TRUE, resp |-> resp, err |-> NoError]

Err(e) == [some |-> TRUE, ok |-> FALSE, resp |-> NoResponse, err |-> e]

NoCount == [json |-> 0, call |-> 0]

NoOutcome == [st |-> "none", val |-> <<>>, err |-> NoError]

Pending == [st |-> "pending", val |-> <<>>, err |-> NoError]

\* No operation is awaited, and its result, if any, has been dropped.
Idle ==
    /\ mode' = "idle"
    /\ reqs' = <<>>
    /\ elems' = <<>>
    /\ yielded' = <<>>
    /\ cnt' = <<>>
    /\ order' = <<>>
    /\ outcome' = NoOutcome

\* No use of #[tool_function].
NoExpansion ==
    [n |-> NoLit, d |-> NoLit, ident |-> <<>>, expanded |-> FALSE,
     name |-> <<>>, description |-> <<>>, camel |-> NoStr]

\* No operation: what the state of an operation is when none is in flight.
NoOp ==
    [mode |-> "idle", reqs |-> <<>>, elems |-> <<>>, yielded |-> <<>>, cnt |-> <<>>,
     order |-> <<>>, outcome |-> NoOutcome]

\* An awaited future borrows the registry: no &mut self method runs before it has
\* returned.
Busy == mode # "idle" \/ bg.mode # "idle"

Init ==
    /\ tools = new
    /\ last = NoLast
    /\ mode = "idle"
    /\ reqs = <<>>
    /\ elems = <<>>
    /\ yielded = <<>>
    /\ cnt = <<>>
    /\ order = <<>>
    /\ outcome = NoOutcome
    /\ bg = NoOp
    /\ expansion = NoExpansion

(***************************************************************************)
(* The registry's operations.                                              *)
(***************************************************************************)
RegisterFunction(tool) ==
    /\ ~Busy
    /\ tools' = register_function(tools, tool)
    /\ last' = [NoLast EXCEPT !.op = "register", !.tool = tool,
                              !.name = ToolName(tool), !.pre = tools,
                              !.prior = Prior]
    /\ Idle
    /\ UNCHANGED <<bg, expansion>>

RegisterFunctions(ts) ==
    /\ ~Busy
    /\ tools' = register_functions(tools, ts)
    /\ last' = [NoLast EXCEPT !.op = "register_all", !.seq = ts, !.pre = tools,
                              !.prior = Prior]
    /\ Idle
    /\ UNCHANGED <<bg, expansion>>

RemoveTool(name) ==
    /\ ~Busy
    /\ tools' = remove_tool(tools, name)
    /\ last' = [NoLast EXCEPT !.op = "remove", !.name = name, !.pre = tools,
                              !.ret = remove_tool_returns(tools, name),
                              !.prior = Prior]
    /\ Idle
    /\ UNCHANGED <<bg, expansion>>

Clear ==
    /\ ~Busy
    /\ tools' = clear(tools)
    /\ last' = [NoLast EXCEPT !.op = "clear", !.pre = tools, !.prior = Prior]
    /\ Idle
    /\ UNCHANGED <<bg, expansion>>

\* registry.get_tools(): a read through &self; the caller has the descriptors.
GetTools ==
    /\ \E ord \in ValuesOrders(tools) :
          last' = [NoLast EXCEPT !.op = "get_tools", !.pre = tools, !.prior = Prior,
                                 !.descs = get_tools(tools, ord)]
    /\ UNCHANGED <<tools, mode, reqs, elems, yielded, cnt, order, outcome, bg, expansion>>

\* registry.has_tool(name), tool_names(), len() and is_empty(): reads through
\* &self; the caller has the answers.
Query(name) ==
    /\ last' = [NoLast EXCEPT !.op = "query", !.name = name, !.pre = tools,
                              !.prior = Prior,
                              !.query = [has |-> has_tool(tools, name),
                                         names |-> tool_names(tools),
                                         count |-> len(tools),
                                         empty |-> is_empty(tools)]]
    /\ UNCHANGED <<tools, mode, reqs, elems, yielded, cnt, order, outcome, bg, expansion>>

\* The registry merged in is one built by new and register_function.
Merge(ts) ==
    /\ ~Busy
    /\ LET other == register_functions(new, ts)
       IN  /\ tools' = merge(tools, other)
           /\ last' = [NoLast EXCEPT !.op = "merge", !.pre = tools, !.other = other,
                                         !.prior = Prior]
    /\ Idle
    /\ UNCHANGED <<bg, expansion>>

(***************************************************************************)
(* Execution.  An execute_call future runs when it is polled: the lookup,  *)
(* then call_json up to the tool's operation, which either returns at once *)
(* or suspends (its one await point); a suspended call is woken when the   *)
(* work it awaits is done, and the next poll takes it to its result.       *)
(***************************************************************************)

\* What decoding comes to, per tool and arguments (DecodeParams, tabulated).
Decoded == [t \in ToolIds |-> [a \in Arguments |-> DecodeParams(t, a)]]

\* A result of call_json with the text of its value (serde_json::to_string).
WithText(r) ==
    [ok |-> r.ok, text |-> IF r.ok THEN ToJsonString(r.v) ELSE <<>>, err |-> r.err]

\* What call_json and serde_json::to_string come to, per tool and arguments
\* (tabulated).
Returned == [t \in ToolIds |-> [a \in Arguments |-> WithText(CallJson(t, a))]]

\* A response labelled with the call's fn_name.
ToolResponseSwapped(call, text) == [call_id |-> call.fn_name, content |-> text]

\* A response that carries the call_id in its content as well.
ToolResponseTagged(call, text) ==
    [call_id |-> call.call_id, content |-> <<call.call_id, ":">> \o text]

\* ToolResponse::new(call_id, serde_json::to_string(&result)?)
ToolResponse(call, text) == [call_id |-> call.call_id, content |-> text]

\* What a poll makes of the future of one call: its state, what it returned, its
\* counts, and whether the invocation completed in this poll.
Polled(elem, res, count, completed) ==
    [elem |-> elem, yielded |-> res, cnt |-> count, completed |-> completed]

\* An execute_call that returns the text of the error in a new error.
RespondStringified(call, r) ==
    IF r.ok THEN Ok(ToolResponse(call, r.text))
    ELSE Err([ety |-> "String", msg |-> r.err.msg])

\* execute_call's own result, from what call_json came to (r).
Respond(call, r) == IF r.ok THEN Ok(ToolResponse(call, r.text)) ELSE Err(r.err)

\* The tool's operation has returned: the rest of call_json and of execute_call.
Finish(call) == Respond(call, Returned[Handler(tools, call.fn_name)][call.fn_arguments])

Entered(count) == [count EXCEPT !.json = @ + 1]

Called(count) == [count EXCEPT !.call = @ + 1]

\* A call_json that enters the tool's operation before it looks at the decoding.
CallJsonPollCallFirst(d, call, count, suspends) ==
    IF ~d.ok THEN Polled("done", Err(d.err), Called(count), TRUE)
    ELSE IF suspends THEN Polled("susp", NoResult, Called(count), FALSE)
    ELSE Polled("done", Finish(call), Called(count), TRUE)

\* A call_json that calls the tool's operation once more when it has failed.
CallJsonPollRetry(d, call, count, suspends) ==
    IF ~d.ok THEN Polled("done", Err(d.err), count, TRUE)
    ELSE IF suspends THEN Polled("susp", NoResult, Called(count), FALSE)
    ELSE Polled("done", Finish(call),
                IF Finish(call).ok THEN Called(count) ELSE Called(Called(count)), TRUE)

\* call_json is entered with arguments that decode as d: it fails, or the tool's
\* operation is called, which suspends or returns.
CallJsonPoll(d, call, count, suspends) ==
    IF ~d.ok THEN Polled("done", Err(d.err), count, TRUE)
    ELSE IF suspends THEN Polled("susp", NoResult, Called(count), FALSE)
    ELSE Polled("done", Finish(call), Called(count), TRUE)

\* An execute_call that looks at the arguments before it looks the name up: it
\* refuses an object with no members.
PollFutureArgumentsFirst(elem, res, count, call, suspends) ==
    CASE elem = "new" ->
           IF call.fn_arguments.o = NoMembers
           THEN Polled("done", Err(SerdeError(<<"missing field ", "a">>)), count, TRUE)
           ELSE IF ~has_tool(tools, call.fn_name)
           THEN Polled("done", Err(NotFoundError(call.fn_name)), count, TRUE)
           ELSE CallJsonPoll(Decoded[Handler(tools, call.fn_name)][call.fn_arguments],
                             call, Entered(count), suspends)
      [] elem = "woken" -> Polled("done", Finish(call), count, FALSE)
      [] OTHER -> Polled(elem, res, count, FALSE)

\* A poll that has lost the output of a tool's operation that had suspended: the
\* response it returns on resumption has no content.
PollFutureResumedEmpty(elem, res, count, call, suspends) ==
    CASE elem = "new" ->
           IF ~has_tool(tools, call.fn_name)
           THEN Polled("done", Err(NotFoundError(call.fn_name)), count, TRUE)
           ELSE CallJsonPoll(Decoded[Handler(tools, call.fn_name)][call.fn_arguments],
                             call, Entered(count), suspends)
      [] elem = "woken" -> Polled("done", Ok(ToolResponse(call, <<>>)), count, FALSE)
      [] OTHER -> Polled(elem, res, count, FALSE)

\* One poll of an execute_call future (registry.rs:124-135 with traits.rs:64-75), in
\* state elem with counts count; suspends: whether the tool's operation, once
\* entered, awaits outside work.
PollFuture(elem, res, count, call, suspends) ==
    CASE elem = "new" ->
           IF ~has_tool(tools, call.fn_name)
           THEN Polled("done", Err(NotFoundError(call.fn_name)), count, TRUE)
           ELSE CallJsonPoll(Decoded[Handler(tools, call.fn_name)][call.fn_arguments],
                             call, Entered(count), suspends)
      [] elem = "woken" -> Polled("done", Finish(call), count, FALSE)
      [] OTHER -> Polled(elem, res, count, FALSE)

\* An execute_calls whose futures all execute the first call of the slice.
PollExecuteCallOfFirst(i, suspends) ==
    PollFuture(elems[i], yielded[i], cnt[i], reqs[1], suspends)

PollExecuteCall(i, suspends) == PollFuture(elems[i], yielded[i], cnt[i], reqs[i], suspends)

\* The numbers of S in ascending order.
RECURSIVE Ascending(_)
Ascending(S) ==
    IF S = {} THEN <<>>
    ELSE LET m == CHOOSE i \in S : \A j \in S : i <= j
         IN  <<m>> \o Ascending(S \ {m})

\* A pass that awaits the futures one after the other: it ends at the first future
\* that is not ready.
BreakIndexSequential(P) ==
    LET stop == {i \in 1..Len(reqs) :
                    elems[i] # "done" /\ (P[i].elem # "done" \/ ~P[i].yielded.ok)}
    IN  IF stop = {} THEN Len(reqs) ELSE CHOOSE i \in stop : \A j \in stop : i <= j

\* A pass that goes on to the last future after a future has returned an error.
BreakIndexLast(P) == Len(reqs)

\* The index at which a pass of try_join_all ends: that of the first future, among
\* those not yet done, whose poll P[i] returns an error (the pass breaks there), or
\* the last index.
BreakIndex(P) ==
    LET errs == {i \in 1..Len(reqs) :
                    elems[i] # "done" /\ P[i].yielded.some /\ ~P[i].yielded.ok}
    IN  IF errs = {} THEN Len(reqs) ELSE CHOOSE i \in errs : \A j \in errs : i <= j

\* The futures after the pass: those polled are as their poll P[i] left them.
AfterPass(P, brk) ==
    [i \in 1..Len(reqs) |->
        IF elems[i] # "done" /\ i <= brk THEN P[i]
        ELSE Polled(elems[i], yielded[i], cnt[i], FALSE)]

PassState(A) ==
    [elems |-> [i \in 1..Len(reqs) |-> A[i].elem],
     yielded |-> [i \in 1..Len(reqs) |-> A[i].yielded],
     cnt |-> [i \in 1..Len(reqs) |-> A[i].cnt],
     order |-> order \o Ascending({i \in 1..Len(reqs) : A[i].completed})]

\* The pass, from the polls P: where it ends, and the futures after it.
Pass(P) ==
    CHOOSE S \in {PassState(A) : A \in {AfterPass(P, brk) : brk \in {BreakIndex(P)}}} : TRUE

\* futures::future::try_join_all (registry.rs:154), one poll: the futures not yet
\* done are polled in index order, up to and including the first that returns an
\* error.
TryJoinAllPoll(susp) ==
    CHOOSE S \in {Pass(P) : P \in {[i \in 1..Len(reqs) |->
                                      PollExecuteCall(i, elems[i] = "new" /\ susp[i])]}} :
        TRUE

Failed(S) == {i \in 1..Len(reqs) : S.yielded[i].some /\ ~S.yielded[i].ok}

\* The outputs of the futures, taken in the order the invocations completed.
CollectInCompletionOrder(S) == [i \in 1..Len(reqs) |-> S.yielded[S.order[i]].resp]

\* Responses collected under their call_id: each index gets the response of the
\* first call with the call_id of the call at that index.
CollectOutputsByCallId(S) ==
    [i \in 1..Len(reqs) |->
        S.yielded[CHOOSE j \in 1..Len(reqs) :
                      /\ reqs[j].call_id = reqs[i].call_id
                      /\ \A k \in 1..(j - 1) : reqs[k].call_id # reqs[i].call_id].resp]

\* The outputs of the futures, taken in index order.
CollectOutputs(S) == [i \in 1..Len(reqs) |-> S.yielded[i].resp]

\* A join that waits for every future before it reports an error.
JoinAllState(S) ==
    IF \E i \in 1..Len(reqs) : S.elems[i] # "done" /\ ~(i \in Failed(S)) THEN "pending"
    ELSE IF Failed(S) # {} THEN "error"
    ELSE "alldone"

\* What the pass comes to: "error", "pending" or "alldone".
TryJoinAllState(S) ==
    IF Failed(S) # {} THEN "error"
    ELSE IF \E i \in 1..Len(reqs) : S.elems[i] # "done" THEN "pending"
    ELSE "alldone"

\* An error that comes with the responses produced so far.
ErrOutcomeWithPartial(S, e) ==
    LET done == Ascending({i \in 1..Len(reqs) : S.yielded[i].ok})
    IN  [st |-> "err", err |-> e,
         val |-> [j \in 1..Len(done) |-> S.yielded[done[j]].resp]]

\* The error the operation resolves to: no responses come with it.
ErrOutcome(S, e) == [st |-> "err", val |-> <<>>, err |-> e]

\* A join that leaves the failed calls out and returns the responses of the others.
TryJoinAllOutcomeSkipFailed(S) ==
    CASE TryJoinAllState(S) = "error" ->
           LET done == Ascending({i \in 1..Len(reqs) : S.yielded[i].ok})
           IN  [st |-> "ok", err |-> NoError,
                val |-> [j \in 1..Len(done) |-> S.yielded[done[j]].resp]]
      [] TryJoinAllState(S) = "alldone" ->
           [st |-> "ok", val |-> CollectOutputs(S), err |-> NoError]
      [] OTHER -> Pending

\* What the awaited try_join_all resolves to after the pass, if it does.
TryJoinAllOutcome(S) ==
    CASE TryJoinAllState(S) = "error" ->
           ErrOutcome(S, S.yielded[CHOOSE i \in Failed(S) : TRUE].err)
      [] TryJoinAllState(S) = "alldone" ->
           [st |-> "ok", val |-> CollectOutputs(S), err |-> NoError]
      [] OTHER -> Pending

\* A join that keeps its futures when it returns an error.
TryJoinAllElemsKept(S) == S.elems

\* The futures try_join_all still holds: on an error it drops them all.
TryJoinAllElems(S) ==
    IF TryJoinAllState(S) = "error" THEN [i \in 1..Len(reqs) |-> "dropped"]
    ELSE S.elems

\* A future that is polled when it is first awaited and never again: a wake-up
\* is lost.
PollableOnceOnly ==
    /\ outcome.st = "pending"
    /\ \A i \in 1..Len(reqs) : elems[i] = "new"

\* The awaited future is polled when it is first awaited and when it was woken.
Pollable ==
    /\ outcome.st = "pending"
    /\ \/ \A i \in 1..Len(reqs) : elems[i] = "new"
       \/ \E i \in 1..Len(reqs) : elems[i] = "woken"

Start(m, calls) ==
    /\ mode' = m
    /\ reqs' = calls
    /\ elems' = [i \in 1..Len(calls) |-> "new"]
    /\ yielded' = [i \in 1..Len(calls) |-> NoResult]
    /\ cnt' = [i \in 1..Len(calls) |-> NoCount]
    /\ order' = <<>>
    /\ outcome' = Pending

\* registry.execute_call(&tool_call): the future is made; nothing runs yet.
ExecuteCall(call) ==
    /\ mode = "idle"
    /\ Start("call", <<call>>)
    /\ UNCHANGED <<tools, last, bg, expansion>>

\* registry.execute_calls(&tool_calls): one future per call, none polled yet.
ExecuteCalls(calls) ==
    /\ mode = "idle"
    /\ Start("calls", calls)
    /\ UNCHANGED <<tools, last, bg, expansion>>

\* The awaited execute_call is as its poll P left it.
CallPolled(P) ==
    /\ elems' = <<P.elem>>
    /\ yielded' = <<P.yielded>>
    /\ cnt' = <<P.cnt>>
    /\ order' = IF P.completed THEN <<1>> ELSE order
    /\ outcome' = IF ~P.yielded.some THEN Pending
                  ELSE IF P.yielded.ok
                  THEN [st |-> "ok", val |-> <<P.yielded.resp>>, err |-> NoError]
                  ELSE [st |-> "err", val |-> <<>>, err |-> P.yielded.err]

\* An execute_call that takes the handler out of the map for the time of the call.
PollCallTaking(suspends) ==
    /\ mode = "call"
    /\ Pollable
    /\ CallPolled(PollExecuteCall(1, suspends))
    /\ tools' = remove_tool(tools, reqs[1].fn_name)
    /\ UNCHANGED <<last, mode, reqs, bg, expansion>>

\* The awaited execute_call is polled.
PollCall(suspends) ==
    /\ mode = "call"
    /\ Pollable
    /\ CallPolled(PollExecuteCall(1, suspends))
    /\ UNCHANGED <<tools, last, mode, reqs, bg, expansion>>

\* The awaited execute_calls is as the pass S of try_join_all left it.
CallsPolled(S) ==
    /\ elems' = TryJoinAllElems(S)
    /\ yielded' = S.yielded
    /\ cnt' = S.cnt
    /\ order' = S.order
    /\ outcome' = TryJoinAllOutcome(S)

\* An execute_calls that takes the tool of a call that failed out of the map.
PollCallsEvicting(susp) ==
    /\ mode = "calls"
    /\ Pollable
    /\ \E S \in {TryJoinAllPoll(susp)} :
          /\ CallsPolled(S)
          /\ tools' = {e \in tools : \A i \in Failed(S) : e[1] # reqs[i].fn_name}
    /\ UNCHANGED <<last, mode, reqs, bg, expansion>>

\* The awaited execute_calls is polled.
PollCalls(susp) ==
    /\ mode = "calls"
    /\ Pollable
    /\ \E S \in {TryJoinAllPoll(susp)} : CallsPolled(S)
    /\ UNCHANGED <<tools, last, mode, reqs, bg, expansion>>

\* The work a suspended call awaits is done: its task is woken.
Complete(i) ==
    /\ i \in 1..Len(reqs)
    /\ elems[i] = "susp"
    /\ elems' = [elems EXCEPT ![i] = "woken"]
    /\ order' = Append(order, i)
    /\ UNCHANGED <<tools, last, mode, reqs, yielded, cnt, outcome, bg, expansion>>

\* The work that a call awaited when its future was dropped is done: there is no
\* future left to wake.
CompleteDropped(i) ==
    /\ i \in 1..Len(reqs)
    /\ elems[i] = "dropped"
    /\ cnt[i].call = 1
    /\ ~yielded[i].some
    /\ \A k \in 1..Len(order) : order[k] # i
    /\ order' = Append(order, i)
    /\ UNCHANGED <<tools, last, mode, reqs, elems, yielded, cnt, outcome, bg, expansion>>

\* The await returns: the caller has the result and the future is dropped.
Return ==
    /\ outcome.st \in {"ok", "err"}
    /\ Idle
    /\ UNCHANGED <<tools, last, bg, expansion>>

CallSeqs == UNION {[1..n -> ToolCalls] : n \in 0..MaxCalls}

ToolSeqs == UNION {[1..n -> ToolIds] : n \in 0..MaxOther}

\* The registry with single calls.
Next ==
    \/ ~Busy /\ \E t \in ToolIds : RegisterFunction(t)
    \/ ~Busy /\ \E ts \in ToolSeqs : RegisterFunctions(ts)
    \/ ~Busy /\ \E n \in Names : RemoveTool(n)
    \/ Clear
    \/ ~Busy /\ \E ts \in ToolSeqs : Merge(ts)
    \/ ~Busy /\ GetTools
    \/ ~Busy /\ \E call \in ToolCalls : ExecuteCall(call)
    \/ mode = "call" /\ \E suspends \in BOOLEAN : PollCall(suspends)
    \/ \E i \in 1..Len(reqs) : Complete(i)
    \/ Return

Spec == Init /\ [][Next]_vars

\* Batches of calls, on every registry that new and register_function build.
InitBatch ==
    /\ tools \in {register_functions(new, ts) : ts \in ToolSeqs}
    /\ last = NoLast
    /\ mode = "idle"
    /\ reqs = <<>>
    /\ elems = <<>>
    /\ yielded = <<>>
    /\ cnt = <<>>
    /\ order = <<>>
    /\ outcome = NoOutcome
    /\ bg = NoOp
    /\ expansion = NoExpansion

NextBatch ==
    \/ ~Busy /\ \E calls \in CallSeqs : ExecuteCalls(calls)
    \/ mode = "calls"
         /\ \E susp \in [{i \in 1..Len(reqs) : elems[i] = "new"} -> BOOLEAN] : PollCalls(susp)
    \/ \E i \in 1..Len(reqs) : Complete(i)
    \/ \E i \in 1..Len(reqs) : CompleteDropped(i)
    \/ Return

BatchSpec == InitBatch /\ [][NextBatch]_vars

\* Batches under a fair executor, with tools whose awaited work always completes:
\* a future that can be polled is polled, and the work a suspended call awaits
\* is done in the end. The registry holds T1, with or without T3.
InitFair ==
    /\ tools \in {register_functions(new, <<"T1">>), register_functions(new, <<"T1", "T3">>)}
    /\ last = NoLast
    /\ mode = "idle"
    /\ reqs = <<>>
    /\ elems = <<>>
    /\ yielded = <<>>
    /\ cnt = <<>>
    /\ order = <<>>
    /\ outcome = NoOutcome
    /\ bg = NoOp
    /\ expansion = NoExpansion

FairBatchSpec ==
    /\ InitFair
    /\ [][NextBatch]_vars
    /\ WF_vars(\E susp \in [{i \in 1..Len(reqs) : elems[i] = "new"} -> BOOLEAN] :
                  PollCalls(susp))
    /\ \A i \in 1..MaxCalls : WF_vars(Complete(i))

\* The operations that take &self, and no other: execute_call, execute_calls,
\* get_tools and the queries, on the registries of InitFair, where calls fail in
\* every step. The call_id of the calls is "c1".
ReadCalls == {c \in ToolCalls : c.call_id = "c1"}

ReadSeqs == UNION {[1..n -> ReadCalls] : n \in 0..MaxCalls}

NextRead ==
    \/ ~Busy /\ \E call \in ReadCalls : ExecuteCall(call)
    \/ ~Busy /\ \E calls \in ReadSeqs : ExecuteCalls(calls)
    \/ mode = "call" /\ \E suspends \in BOOLEAN : PollCall(suspends)
    \/ mode = "calls"
         /\ \E susp \in [{i \in 1..Len(reqs) : elems[i] = "new"} -> BOOLEAN] : PollCalls(susp)
    \/ \E i \in 1..Len(reqs) : Complete(i)
    \/ \E i \in 1..Len(reqs) : CompleteDropped(i)
    \/ Return
    \/ GetTools
    \/ \E n \in Names : Query(n)

ReadSpec == InitFair /\ [][NextRead]_vars

\* Single calls and batches of calls, on every registry that new and
\* register_function build.
NextExec ==
    \/ NextBatch
    \/ ~Busy /\ \E call \in ToolCalls : ExecuteCall(call)
    \/ mode = "call" /\ \E suspends \in BOOLEAN : PollCall(suspends)

ExecSpec == InitBatch /\ [][NextExec]_vars

\* The operation that is polled, as the one that is not is kept.
Fg ==
    [mode |-> mode, reqs |-> reqs, elems |-> elems, yielded |-> yielded, cnt |-> cnt,
     order |-> order, outcome |-> outcome]

\* execute_call, execute_calls and get_tools take &self: the futures of two
\* operations borrow the same registry, and the executor polls now one, now the
\* other. The task that was not running is the one that runs from here on.
Switch ==
    /\ Busy
    /\ mode' = bg.mode
    /\ reqs' = bg.reqs
    /\ elems' = bg.elems
    /\ yielded' = bg.yielded
    /\ cnt' = bg.cnt
    /\ order' = bg.order
    /\ outcome' = bg.outcome
    /\ bg' = Fg
    /\ UNCHANGED <<tools, last, expansion>>

\* The arguments and the calls of the operations that run side by side: one that
\* the tool accepts and one on which it fails.
ConcArguments == {JObj([a |-> JStr("x"), b |-> JNum(1)]), JObj([a |-> JStr("")])}

ConcCalls ==
    {c \in ToolCalls :
        c.call_id = "c1" /\ c.fn_name = "x" /\ c.fn_arguments \in ConcArguments}

ConcSeqs == UNION {[1..n -> ConcCalls] : n \in 1..MaxConc}

\* The registry that the operations side by side share: T1 under "x".
ConcTools == register_function(new, "T1")

InitConc ==
    /\ tools = ConcTools
    /\ last = NoLast
    /\ mode = "idle"
    /\ reqs = <<>>
    /\ elems = <<>>
    /\ yielded = <<>>
    /\ cnt = <<>>
    /\ order = <<>>
    /\ outcome = NoOutcome
    /\ bg = NoOp
    /\ expansion = NoExpansion

\* Two tasks on one registry: each starts, polls and ends its operation at its own
\* pace, and get_tools runs at any time.
NextConc ==
    \/ \E call \in ConcCalls : Len(bg.reqs) + 1 <= MaxConc /\ ExecuteCall(call)
    \/ \E calls \in ConcSeqs :
          Len(bg.reqs) + Len(calls) <= MaxConc /\ ExecuteCalls(calls)
    \/ mode = "call" /\ \E suspends \in BOOLEAN : PollCall(suspends)
    \/ mode = "calls"
         /\ \E susp \in [{i \in 1..Len(reqs) : elems[i] = "new"} -> BOOLEAN] : PollCalls(susp)
    \/ \E i \in 1..Len(reqs) : Complete(i)
    \/ \E i \in 1..Len(reqs) : CompleteDropped(i)
    \/ Return
    \/ GetTools
    \/ Switch

ConcSpec == InitConc /\ [][NextConc]_vars

\* Batches of every length from none, with calls that share their call_id, their
\* fn_name or both: two arguments, one that T3 returns unserializable.
EdgeArguments == {JObj([a |-> JStr("x"), b |-> JNum(1)]), JObj([a |-> JStr("y")])}

EdgeCalls == {c \in ToolCalls : c.fn_arguments \in EdgeArguments}

EdgeSeqs == UNION {[1..n -> EdgeCalls] : n \in 0..MaxCalls}

\* Two tasks that await execute_calls on one registry, with at most MaxCalls calls
\* in flight between them.
NextEdge ==
    \/ \E calls \in EdgeSeqs :
          Len(bg.reqs) + Len(calls) <= MaxCalls /\ ExecuteCalls(calls)
    \/ mode = "calls"
         /\ \E susp \in [{i \in 1..Len(reqs) : elems[i] = "new"} -> BOOLEAN] : PollCalls(susp)
    \/ \E i \in 1..Len(reqs) : Complete(i)
    \/ \E i \in 1..Len(reqs) : CompleteDropped(i)
    \/ Return
    \/ Switch

EdgeSpec == InitFair /\ [][NextEdge]_vars

\* A function annotated with #[tool_function], with every choice of arguments.
InitMacro ==
    /\ tools = new
    /\ last = NoLast
    /\ mode = "idle"
    /\ reqs = <<>>
    /\ elems = <<>>
    /\ yielded = <<>>
    /\ cnt = <<>>
    /\ order = <<>>
    /\ outcome = NoOutcome
    /\ bg = NoOp
    /\ expansion \in {[NoExpansion EXCEPT !.n = n, !.d = d, !.ident = ident] :
                         n \in OptLits, d \in OptLits, ident \in Idents}

\* The compiler expands the attribute: the tool is generated.
Expand ==
    /\ ~expansion.expanded
    /\ expansion.ident # <<>>
    /\ expansion' =
          [expansion EXCEPT
             !.expanded = TRUE,
             !.camel = SomeStr(to_upper_camel_case(expansion.ident)),
             !.name = tool_function(expansion.n, expansion.d, expansion.ident).name,
             !.description =
                 tool_function(expansion.n, expansion.d, expansion.ident).description]
    /\ UNCHANGED <<tools, last, mode, reqs, elems, yielded, cnt, order, outcome, bg>>

NextMacro == Expand

MacroSpec == InitMacro /\ [][NextMacro]_vars

\* to_upper_camel_case on its own, as its test calls it, with every input of at
\* most MaxWord characters.
InitCase ==
    /\ tools = new
    /\ last = NoLast
    /\ mode = "idle"
    /\ reqs = <<>>
    /\ elems = <<>>
    /\ yielded = <<>>
    /\ cnt = <<>>
    /\ order = <<>>
    /\ outcome = NoOutcome
    /\ bg = NoOp
    /\ expansion \in {[NoExpansion EXCEPT !.ident = input] : input \in CaseInputs}

\* to_upper_camel_case(input) returns.
ToUpperCamelCase ==
    /\ ~expansion.camel.some
    /\ expansion' =
          [expansion EXCEPT !.camel = SomeStr(to_upper_camel_case(expansion.ident))]
    /\ UNCHANGED <<tools, last, mode, reqs, elems, yielded, cnt, order, outcome, bg>>

NextCase == ToUpperCamelCase

CaseSpec == InitCase /\ [][NextCase]_vars

\* execute_call twice on one registry, which nothing changes: the caller keeps the
\* result of one call while the other runs, before it, after it or across it;
\* get_tools at any time.
NextTwice ==
    \/ GetTools
    \/ \E call \in ToolCalls : ExecuteCall(call)
    \/ mode = "call" /\ \E suspends \in BOOLEAN : PollCall(suspends)
    \/ \E i \in 1..Len(reqs) : Complete(i)
    \/ Return
    \/ Switch

TwiceSpec == InitBatch /\ [][NextTwice]_vars

\* execute_call on the map m with no other operation in flight: what it returns.
ExecuteCallAlone(m, call) ==
    IF ~has_tool(m, call.fn_name) THEN Err(NotFoundError(call.fn_name))
    ELSE Respond(call, WithText(CallJson(Handler(m, call.fn_name), call.fn_arguments)))

\* The step of call_json (traits.rs:66-73) at which tool t fails on the arguments
\* args: "decode", "call", "encode", or "none".
FailedStepOf(t, args) ==
    IF ~DecodeParams(t, args).ok THEN "decode"
    ELSE IF ~Call(t, DecodeParams(t, args).p).ok THEN "call"
    ELSE IF ~ToValue(Call(t, DecodeParams(t, args).p).out).ok THEN "encode"
    ELSE "none"

\* The step of execute_call (registry.rs:125-134) at which a call fails on the map
\* m: "lookup", or the step of call_json.
FailedStep(m, call) ==
    IF ~has_tool(m, call.fn_name) THEN "lookup"
    ELSE FailedStepOf(Handler(m, call.fn_name), call.fn_arguments)

(***************************************************************************)
(* Properties of execute_calls, checked under BatchSpec.                   *)
(***************************************************************************)

\* C1: when execute_calls succeeds, it returns as many responses as there were calls,
\* and the i-th response carries the call_id of the i-th call and the JSON text of
\* what the i-th call's tool returned for its arguments, in whatever order the
\* invocations completed.
BatchPreservesOrder ==
    (mode = "calls" /\ outcome.st = "ok") =>
        /\ Len(outcome.val) = Len(reqs)
        /\ \A i \in 1..Len(reqs) :
              /\ outcome.val[i].call_id = reqs[i].call_id
              /\ has_tool(tools, reqs[i].fn_name)
              /\ CallJson(Handler(tools, reqs[i].fn_name), reqs[i].fn_arguments).ok
              /\ outcome.val[i].content =
                    ToJsonString(CallJson(Handler(tools, reqs[i].fn_name),
                                          reqs[i].fn_arguments).v)

\* A batch of two different calls succeeded although the second call's invocation
\* completed before the first's.
BatchOutOfOrderReached ==
    /\ mode = "calls"
    /\ outcome.st = "ok"
    /\ order = <<2, 1>>
    /\ reqs[1].call_id # reqs[2].call_id
    /\ outcome.val[1].content # outcome.val[2].content

\* C2: execute_calls is fail-fast: once the future of any one call has returned an
\* error, the batch has resolved to that error, whatever the other calls' futures
\* are doing.
BatchFailFast ==
    mode = "calls" =>
        \A i \in 1..Len(reqs) :
            (yielded[i].some /\ ~yielded[i].ok) =>
                (outcome.st = "err" /\ outcome.err = yielded[i].err)

\* A batch resolved to an error while the tool's operation of another call was
\* suspended on work that had not completed.
BatchFailedWhileSuspendedReached ==
    /\ mode = "calls"
    /\ outcome.st = "err"
    /\ \E j \in 1..Len(reqs) :
          /\ cnt[j].call = 1
          /\ ~yielded[j].some
          /\ \A k \in 1..Len(order) : order[k] # j

\* C3: execute_calls has no partial success: once resolved, it is the full sequence
\* of responses in call order exactly when every call's future returned a response,
\* and otherwise the error one future returned, with no responses.
BatchAllOrNothing ==
    (mode = "calls" /\ outcome.st # "pending") =>
        /\ outcome.st \in {"ok", "err"}
        /\ outcome.st = "ok" <=> \A i \in 1..Len(reqs) : yielded[i].some /\ yielded[i].ok
        /\ outcome.st = "ok" =>
              outcome.val = [i \in 1..Len(reqs) |-> yielded[i].resp]
        /\ outcome.st = "err" =>
              /\ outcome.val = <<>>
              /\ \E i \in 1..Len(reqs) : yielded[i] = Err(outcome.err)

\* A batch resolved to an error after another of its calls had produced a response.
BatchFailedWithResultsReached ==
    /\ mode = "calls"
    /\ outcome.st = "err"
    /\ \E j \in 1..Len(reqs) : yielded[j].some /\ yielded[j].ok

(***************************************************************************)
(* Properties of execute_call and of the registry's operations, checked    *)
(* under Spec.                                                             *)
(***************************************************************************)

\* C4: execute_call with a fn_name the registry does not hold fails with the error
\* that names exactly that fn_name, and neither call_json nor a tool's operation is
\* entered.
ExecuteUnregisteredFails ==
    (mode = "call" /\ elems[1] # "new" /\ ~has_tool(tools, reqs[1].fn_name)) =>
        /\ outcome.st = "err"
        /\ outcome.val = <<>>
        /\ outcome.err.msg = <<"Tool '", reqs[1].fn_name, "' not found in registry">>
        /\ cnt[1] = [json |-> 0, call |-> 0]

\* A call of a name the registry does not hold failed, on a registry that holds a
\* tool under another name.
ExecuteUnregisteredReached ==
    /\ mode = "call"
    /\ outcome.st = "err"
    /\ ~has_tool(tools, reqs[1].fn_name)
    /\ tools # {}

\* C5: every execute_call that succeeds returns one response, whose call_id is the
\* call's call_id and whose content is the JSON text of what the tool registered
\* under the call's fn_name returns for the call's arguments.
ExecuteReturnsHandlerResult ==
    (mode = "call" /\ outcome.st = "ok") =>
        /\ has_tool(tools, reqs[1].fn_name)
        /\ Len(outcome.val) = 1
        /\ outcome.val[1].call_id = reqs[1].call_id
        /\ cnt[1] = [json |-> 1, call |-> 1]
        /\ LET t == Handler(tools, reqs[1].fn_name)
               d == DecodeParams(t, reqs[1].fn_arguments)
           IN  /\ d.ok
               /\ Call(t, d.p).ok
               /\ outcome.val[1].content = ToJsonString(ToValue(Call(t, d.p).out).v)

\* Call c2 of "x" with {"a":"x","b":1}, on a registry that holds T1 under "x", has
\* returned {"count":1,"name":"x","status_text":"Currently active"}.
ExecuteReturnedTextReached ==
    /\ mode = "call"
    /\ <<"x", "T1">> \in tools
    /\ reqs[1] = [call_id |-> "c2", fn_name |-> "x",
                  fn_arguments |-> JObj([a |-> JStr("x"), b |-> JNum(1)])]
    /\ outcome.st = "ok"
    /\ outcome.val =
          << [call_id |-> "c2",
              content |-> << "{", "\"", "count", "\"", ":", "1", ",",
                             "\"", "name", "\"", ":", "\"", "x", "\"", ",",
                             "\"", "status_text", "\"", ":",
                             "\"", "Currently active", "\"", "}" >>] >>

\* C6: the registry holds at most one handler per name; register_function stores the
\* tool under its own name in place of whatever was stored under that name and
\* leaves the other entries alone; and an execute_call for that name that has since
\* finished came to what the tool registered last comes to.
RegisterLastWriteWins ==
    /\ \A e1, e2 \in tools : e1[1] = e2[1] => e1 = e2
    /\ last.op = "register" =>
          /\ last.name = ToolName(last.tool)
          /\ tools = {e \in last.pre : e[1] # last.name} \cup {<<last.name, last.tool>>}
          /\ (mode = "call" /\ elems[1] = "done" /\ reqs[1].fn_name = last.name) =>
                LET r == CallJson(last.tool, reqs[1].fn_arguments)
                IN  IF r.ok
                    THEN /\ outcome.st = "ok"
                         /\ outcome.val[1].content = ToJsonString(r.v)
                    ELSE /\ outcome.st = "err"
                         /\ outcome.err = r.err

\* T2 was registered under "x" on a registry that held T1 under "x", and a call of
\* "x" has returned T2's output.
RegisterReplacedReached ==
    /\ last.op = "register"
    /\ last.tool = "T2"
    /\ <<"x", "T1">> \in last.pre
    /\ mode = "call"
    /\ reqs[1].fn_name = "x"
    /\ outcome.st = "ok"
    /\ \E k \in 1..Len(outcome.val[1].content) : outcome.val[1].content[k] = "minimal"

\* C7: after merge, the names are those of the registry before and of the registry
\* merged in; every name of the registry merged in has that registry's handler,
\* every other name keeps its handler; and an execute_call of a name of the
\* registry merged in that has since finished came to what that registry's tool
\* comes to.
MergeIncomingWins ==
    last.op = "merge" =>
        /\ Keys(tools) = Keys(last.pre) \cup Keys(last.other)
        /\ \A e \in last.other : e \in tools
        /\ \A e \in last.pre : e[1] \notin Keys(last.other) => e \in tools
        /\ \A e \in tools : e \in last.other \/ e \in last.pre
        /\ (mode = "call" /\ elems[1] = "done" /\ reqs[1].fn_name \in Keys(last.other)) =>
              LET r == CallJson(Handler(last.other, reqs[1].fn_name), reqs[1].fn_arguments)
              IN  IF r.ok
                  THEN /\ outcome.st = "ok"
                       /\ outcome.val[1].content = ToJsonString(r.v)
                  ELSE /\ outcome.st = "err"
                       /\ outcome.err = r.err

\* A registry holding T2 under "x" was merged into one holding T1 under "x" and a
\* tool under "y", and a call of "x" has returned T2's output.
MergeCollisionReached ==
    /\ last.op = "merge"
    /\ <<"x", "T1">> \in last.pre
    /\ <<"y", "T3">> \in last.pre
    /\ last.other = {<<"x", "T2">>}
    /\ mode = "call"
    /\ reqs[1].fn_name = "x"
    /\ outcome.st = "ok"
    /\ \E k \in 1..Len(outcome.val[1].content) : outcome.val[1].content[k] = "minimal"

\* C8: after register_function of a tool named N, has_tool(N) is true; remove_tool(N)
\* returns true exactly when the registry held N just before, has_tool(N) is false
\* after it, and a remove_tool(N) that comes next returns false.
RegisterHasRemove ==
    /\ last.op = "register" => has_tool(tools, last.name)
    /\ last.op = "remove" =>
          /\ last.ret <=> has_tool(last.pre, last.name)
          /\ ~has_tool(tools, last.name)
          /\ (last.prior.op = "register" /\ last.prior.name = last.name) => last.ret
          /\ (last.prior.op = "remove" /\ last.prior.name = last.name) => ~last.ret

\* A name was removed twice in a row: the first remove_tool returned true, the
\* second false.
RemovedTwiceReached ==
    /\ last.op = "remove"
    /\ last.prior.op = "remove"
    /\ last.prior.name = last.name
    /\ last.prior.ret
    /\ ~last.ret

\* C9: when the arguments of a call leave out a required field of the tool's
\* parameter type, or give a field a value of the wrong type, or give an enumerated
\* field a string that is no variant, call_json and execute_call fail with the
\* serde_json error of the decoding, and the tool's operation is not entered.
DecodeFailureSkipsTool ==
    (mode = "call" /\ elems[1] # "new" /\ has_tool(tools, reqs[1].fn_name)) =>
        LET t == Handler(tools, reqs[1].fn_name)
            F == ParamFields(t)
            o == reqs[1].fn_arguments.o
            missing == {f \in DOMAIN F \ DOMAIN o : F[f] # "Option<i32>"}
            mismatch == {f \in DOMAIN F \cap DOMAIN o :
                            \/ F[f] \in {"String", "enum"} /\ o[f].k # "string"
                            \/ F[f] = "Option<i32>" /\ o[f].k \notin {"number", "null"}}
            novariant == {f \in DOMAIN F \cap DOMAIN o :
                            F[f] = "enum" /\ o[f].k = "string" /\ o[f].s \notin Variants}
        IN  (missing \cup mismatch \cup novariant # {}) =>
                /\ ~CallJson(t, reqs[1].fn_arguments).ok
                /\ CallJson(t, reqs[1].fn_arguments).err.ety = "serde_json::Error"
                /\ outcome.st = "err"
                /\ outcome.val = <<>>
                /\ outcome.err = CallJson(t, reqs[1].fn_arguments).err
                /\ cnt[1] = [json |-> 1, call |-> 0]

\* A call of the tool with the enumerated parameter, with a string that is no
\* variant, has failed.
InvalidVariantReached ==
    /\ mode = "call"
    /\ <<"y", "T3">> \in tools
    /\ reqs[1].fn_name = "y"
    /\ reqs[1].fn_arguments = JObj([a |-> JStr("")])
    /\ outcome.st = "err"
    /\ outcome.err.ety = "serde_json::Error"

\* C10: when the tool's operation returns an error, execute_call fails with that
\* error, its message unchanged, and returns no response.
HandlerErrorVerbatim ==
    (mode = "call" /\ elems[1] = "done" /\ has_tool(tools, reqs[1].fn_name)) =>
        LET t == Handler(tools, reqs[1].fn_name)
            d == DecodeParams(t, reqs[1].fn_arguments)
        IN  (d.ok /\ ~Call(t, d.p).ok) =>
                /\ outcome.st = "err"
                /\ outcome.val = <<>>
                /\ outcome.err = Call(t, d.p).err
                /\ cnt[1] = [json |-> 1, call |-> 1]

\* T1 was called with an empty name and the call failed with T1's message.
HandlerErrorReached ==
    /\ mode = "call"
    /\ cnt[1].call = 1
    /\ outcome.st = "err"
    /\ outcome.val = <<>>
    /\ outcome.err = [ety |-> "IntegrationError",
                      msg |-> <<"Validation failed: ", "Name cannot be empty">>]

(***************************************************************************)
(* Properties of failures, checked under ExecSpec.                         *)
(***************************************************************************)

NoFailureSwallowed ==
    (mode = "call" /\ elems[1] = "done") =>
        LET call == reqs[1]
            found == has_tool(tools, call.fn_name)
            t == Handler(tools, call.fn_name)
            d == DecodeParams(t, call.fn_arguments)
            allok == /\ found
                     /\ d.ok
                     /\ Call(t, d.p).ok
                     /\ ToValue(Call(t, d.p).out).ok
        IN  /\ outcome.st \in {"ok", "err"}
            /\ outcome.st = "ok" <=> allok
            /\ outcome.st = "ok" => (Len(outcome.val) = 1 /\ outcome.err = NoError)
            /\ outcome.st = "err" => (outcome.val = <<>> /\ outcome.err # NoError)

\* A call whose tool returned an output that cannot be encoded has failed.
EncodeFailureReturnedReached ==
    /\ mode = "call"
    /\ <<"y", "T3">> \in tools
    /\ reqs[1].fn_name = "y"
    /\ reqs[1].fn_arguments = JObj([a |-> JStr("y")])
    /\ cnt[1] = [json |-> 1, call |-> 1]
    /\ outcome.st = "err"
    /\ outcome.val = <<>>

\* C13: nothing is retried: in one execute_call, and for every call of one
\* execute_calls, call_json is entered at most once and the tool's operation at most
\* once, and exactly once by the time the call has failed in the tool's operation or
\* in the encoding, or has succeeded.
NoRetry ==
    \A i \in 1..Len(reqs) :
        /\ cnt[i].json <= 1
        /\ cnt[i].call <= cnt[i].json
        /\ yielded[i].some =>
              cnt[i].call = IF FailedStep(tools, reqs[i]) \in {"lookup", "decode"}
                            THEN 0 ELSE 1

\* A batch failed with a tool's own error, and that tool's operation was entered
\* once.
FailedOnceReached ==
    /\ mode = "calls"
    /\ outcome.st = "err"
    /\ \E i \in 1..Len(reqs) :
          /\ yielded[i] = Err(outcome.err)
          /\ FailedStep(tools, reqs[i]) = "call"
          /\ cnt[i] = [json |-> 1, call |-> 1]

(***************************************************************************)
(* Further properties of execute_calls, checked under BatchSpec.           *)
(***************************************************************************)

\* C14: an execute_calls in which exactly one call has arguments that do not decode,
\* while every other call is one that succeeds, has failed as a whole once it was
\* polled: with the serde_json error of that decoding, and with no responses.
BatchOneInvalidFails ==
    (mode = "calls" /\ \E i \in 1..Len(reqs) : elems[i] # "new") =>
        \A j \in 1..Len(reqs) :
            (/\ FailedStep(tools, reqs[j]) = "decode"
             /\ \A i \in 1..Len(reqs) \ {j} : FailedStep(tools, reqs[i]) = "none") =>
                /\ outcome.st = "err"
                /\ outcome.val = <<>>
                /\ outcome.err.ety = "serde_json::Error"
                /\ outcome.err =
                      DecodeParams(Handler(tools, reqs[j].fn_name), reqs[j].fn_arguments).err

\* A batch of two calls failed on the second call's arguments after the first call
\* had produced its response.
BatchOneInvalidReached ==
    /\ mode = "calls"
    /\ Len(reqs) = 2
    /\ FailedStep(tools, reqs[1]) = "none"
    /\ FailedStep(tools, reqs[2]) = "decode"
    /\ yielded[1].some /\ yielded[1].ok
    /\ outcome.st = "err"

\* C15: once execute_calls has resolved to an error, the calls of the batch take no
\* further step (their futures, counters and results stay as they are) and the
\* outcome stays as it is until the caller has it, whatever work completes
\* meanwhile.
NoStepAfterBatchError ==
    [][(mode = "calls" /\ outcome.st = "err") =>
          \/ mode' = "idle"
          \/ /\ outcome' = outcome
             /\ elems' = elems
             /\ yielded' = yielded
             /\ cnt' = cnt]_vars

\* A batch failed in its first poll while the tool's operation of another call was
\* suspended, and the work that call awaited completed after that.
CompletedAfterBatchErrorReached ==
    /\ mode = "calls"
    /\ outcome.st = "err"
    /\ \E i, j \in 1..Len(reqs) :
          /\ yielded[i] = Err(outcome.err)
          /\ cnt[i].call = 0
          /\ cnt[j].call = 1
          /\ ~yielded[j].some
          /\ \E k \in 1..Len(order) : order[k] = j

\* C16: the calls of one execute_calls run concurrently: once the batch has been
\* polled and is pending, every call of it has been started (call_json entered), so
\* no call waits for an earlier one that is suspended.
BatchRunsConcurrently ==
    (mode = "calls" /\ outcome.st = "pending" /\ \E i \in 1..Len(reqs) : elems[i] # "new") =>
        \A j \in 1..Len(reqs) :
            /\ elems[j] \in {"susp", "woken", "done"}
            /\ cnt[j].json = 1

\* The second call of a batch has started and returned its response while the tool's
\* operation of the first call is suspended.
LaterCallDoneFirstReached ==
    /\ mode = "calls"
    /\ outcome.st = "pending"
    /\ Len(reqs) = 2
    /\ elems[1] = "susp"
    /\ elems[2] = "done"
    /\ cnt[2].call = 1
    /\ yielded[2].some /\ yielded[2].ok

(***************************************************************************)
(* Further properties of the registry's operations, checked under Spec.    *)
(***************************************************************************)

\* C18: get_tools returns exactly one descriptor per name the registry holds, and
\* each descriptor has the name, the description and the schema of the tool that the
\* registry holds under that name when get_tools is called.
DescriptorsOfCurrentTools ==
    last.op = "get_tools" =>
        /\ tools = last.pre
        /\ Len(last.descs) = Cardinality(Keys(tools))
        /\ \A i \in 1..Len(last.descs) : last.descs[i].name \in Keys(tools)
        /\ \A n \in Keys(tools) :
              \E i \in 1..Len(last.descs) :
                  /\ last.descs[i].name = n
                  /\ \A j \in 1..Len(last.descs) : last.descs[j].name = n => j = i
                  /\ last.descs[i].description = ToolDescription(Handler(tools, n))
                  /\ last.descs[i].schema = ToolSchema(Handler(tools, n))

\* After T2 was registered under "x", get_tools on a registry of two names returned
\* two descriptors, the one of "x" with T2's description.
DescriptorsAfterReplaceReached ==
    /\ last.op = "get_tools"
    /\ last.prior.op = "register"
    /\ last.prior.name = "x"
    /\ tools = {<<"x", "T2">>, <<"y", "T3">>}
    /\ Len(last.descs) = 2
    /\ \E i \in 1..2 :
          /\ last.descs[i].name = "x"
          /\ last.descs[i].description = "Tool with minimal configuration"
          /\ last.descs[i].schema.required = {"a"}

\* C19: register_functions comes to register_function on each tool in the order of
\* the sequence: the names afterwards are those before and those of the tools; a
\* name that tools of the sequence have is held by the last of them in the sequence;
\* every other entry is kept.
RegisterAllInOrder ==
    last.op = "register_all" =>
        LET ts == last.seq
            named(n) == {i \in 1..Len(ts) : ToolName(ts[i]) = n}
            latest(n) == CHOOSE i \in named(n) : \A j \in named(n) : j <= i
        IN  /\ Keys(tools) = Keys(last.pre) \cup {ToolName(ts[i]) : i \in 1..Len(ts)}
            /\ \A e1, e2 \in tools : e1[1] = e2[1] => e1 = e2
            /\ \A n \in Keys(tools) :
                  Handler(tools, n) = IF named(n) # {} THEN ts[latest(n)]
                                      ELSE Handler(last.pre, n)
            /\ Len(ts) = 2 =>
                  tools = register_function(register_function(last.pre, ts[1]), ts[2])

\* register_functions of T2, then T1, which share the name "x", on a registry that
\* held T2 under "x": the registry holds T1 under "x".
RegisterAllLatestReached ==
    /\ last.op = "register_all"
    /\ last.seq = <<"T2", "T1">>
    /\ <<"x", "T2">> \in last.pre
    /\ <<"x", "T1">> \in tools

\* C20: a registry just created is empty: len is 0, is_empty is true and there are
\* no names; and after clear, len is 0, is_empty is true, has_tool is false for
\* every name, and an execute_call that was polled has failed with the error naming
\* its fn_name, no handler entered.
NewAndClearedAreEmpty ==
    /\ last.op \in {"new", "clear"} =>
          /\ len(tools) = 0
          /\ is_empty(tools)
          /\ tool_names(tools) = {}
          /\ \A n \in Names : ~has_tool(tools, n)
    /\ (last.op = "clear" /\ mode = "call" /\ elems[1] # "new") =>
          /\ outcome.st = "err"
          /\ outcome.val = <<>>
          /\ outcome.err.msg = <<"Tool '", reqs[1].fn_name, "' not found in registry">>
          /\ cnt[1] = [json |-> 0, call |-> 0]

\* A registry of two tools was cleared and a call of one of their names has failed.
ClearedThenExecutedReached ==
    /\ last.op = "clear"
    /\ last.pre = {<<"x", "T1">>, <<"y", "T3">>}
    /\ mode = "call"
    /\ reqs[1].fn_name = "x"
    /\ outcome.st = "err"

\* C17: execute_call, execute_calls and get_tools on one registry, interleaved in
\* any order: the registry's map stays as it was; every call that has returned has
\* returned what it returns with no other operation in flight; a batch that
\* resolved to responses has those its calls return alone, in the order of the
\* calls; a batch that resolved to an error has the error one of its calls returns
\* alone, with no responses; get_tools returns the descriptors of the map.
OperationAsAlone(op) ==
    /\ \A i \in 1..Len(op.reqs) :
          op.yielded[i].some => op.yielded[i] = ExecuteCallAlone(ConcTools, op.reqs[i])
    /\ (op.mode = "call" /\ op.outcome.st = "ok") =>
          /\ ExecuteCallAlone(ConcTools, op.reqs[1]).ok
          /\ op.outcome.val = <<ExecuteCallAlone(ConcTools, op.reqs[1]).resp>>
    /\ (op.mode = "call" /\ op.outcome.st = "err") =>
          /\ ~ExecuteCallAlone(ConcTools, op.reqs[1]).ok
          /\ op.outcome.err = ExecuteCallAlone(ConcTools, op.reqs[1]).err
          /\ op.outcome.val = <<>>
    /\ (op.mode = "calls" /\ op.outcome.st = "ok") =>
          /\ Len(op.outcome.val) = Len(op.reqs)
          /\ \A i \in 1..Len(op.reqs) :
                /\ ExecuteCallAlone(ConcTools, op.reqs[i]).ok
                /\ op.outcome.val[i] = ExecuteCallAlone(ConcTools, op.reqs[i]).resp
    /\ (op.mode = "calls" /\ op.outcome.st = "err") =>
          /\ op.outcome.val = <<>>
          /\ \E i \in 1..Len(op.reqs) :
                /\ ~ExecuteCallAlone(ConcTools, op.reqs[i]).ok
                /\ op.outcome.err = ExecuteCallAlone(ConcTools, op.reqs[i]).err

\* C17, of both operations, of the map and of the descriptors.
InterleavingsAreIndependent ==
    /\ tools = ConcTools
    /\ last.op = "get_tools" => last.descs = <<Descriptor("T1")>>
    /\ OperationAsAlone(Fg)
    /\ OperationAsAlone(bg)

\* An execute_call and an execute_calls on the same registry have both suspended
\* in the tool and both resolved, neither has returned to its caller yet, the
\* single call with a response and the batch with the tool's error, and get_tools
\* has run.
InterleavedOperationsReached ==
    /\ mode = "call"
    /\ order = <<1>>
    /\ outcome.st = "ok"
    /\ bg.mode = "calls"
    /\ bg.order = <<1>>
    /\ bg.outcome.st = "err"
    /\ bg.outcome.err.ety = "IntegrationError"
    /\ last.op = "get_tools"

\* C21: two execute_call of the same request on one registry, with no change of
\* the registry between them, resolve to the same result: the same response, call_id
\* and content, or the same error.
SameRequestSameResult ==
    (/\ mode = "call" /\ bg.mode = "call"
     /\ reqs = bg.reqs
     /\ outcome.st # "pending" /\ bg.outcome.st # "pending") =>
        /\ outcome = bg.outcome
        /\ outcome.st = "ok" => outcome.val[1].content = bg.outcome.val[1].content

\* The same request has returned a response twice, the tool entered once by each
\* call, and the caller holds both responses.
SameRequestTwiceReached ==
    /\ mode = "call" /\ bg.mode = "call"
    /\ reqs = bg.reqs
    /\ outcome.st = "ok" /\ bg.outcome.st = "ok"
    /\ cnt[1].call = 1 /\ bg.cnt[1].call = 1
    /\ outcome.val[1].content # <<>>

\* C22: two execute_call of requests that differ in call_id only resolve alike,
\* both to a response or both to the same error; the responses have the same
\* content, and each has the call_id of its request, which is all they differ in.
CallIdIsOpaque ==
    (/\ mode = "call" /\ bg.mode = "call"
     /\ reqs[1].fn_name = bg.reqs[1].fn_name
     /\ reqs[1].fn_arguments = bg.reqs[1].fn_arguments
     /\ reqs[1].call_id # bg.reqs[1].call_id
     /\ outcome.st # "pending" /\ bg.outcome.st # "pending") =>
        /\ outcome.st = bg.outcome.st
        /\ outcome.err = bg.outcome.err
        /\ outcome.st = "ok" =>
              /\ outcome.val[1].content = bg.outcome.val[1].content
              /\ outcome.val[1].call_id = reqs[1].call_id
              /\ bg.outcome.val[1].call_id = bg.reqs[1].call_id
              /\ outcome.val[1] = [bg.outcome.val[1] EXCEPT !.call_id = reqs[1].call_id]

\* Requests "c1" and "c2" of the same tool and arguments have both returned a
\* response, and two others that differ in call_id only have failed alike.
CallIdsDifferReached ==
    /\ mode = "call" /\ bg.mode = "call"
    /\ reqs[1].call_id = "c1" /\ bg.reqs[1].call_id = "c2"
    /\ reqs[1].fn_name = bg.reqs[1].fn_name
    /\ reqs[1].fn_arguments = bg.reqs[1].fn_arguments
    /\ outcome.st = "ok" /\ bg.outcome.st = "ok"
    /\ outcome.val[1].content # <<>>

\* C24: for #[tool_function(name = "N", description = "D")], name() of the
\* generated tool returns the value of N and description() the value of D, whatever
\* the string literals are.
AttributeLiteralsReturned ==
    expansion.expanded =>
        /\ expansion.n.some => expansion.name = expansion.n.v
        /\ expansion.d.some => expansion.description = expansion.d.v

HasRequiredAndOptional(t) == ParamFields(t) = [a |-> "String", b |-> "Option<i32>"]

RequiredAndOptionalOf(op) ==
    (/\ op.mode = "call"
     /\ op.outcome.st \in {"ok", "err"}
     /\ has_tool(tools, op.reqs[1].fn_name)
     /\ HasRequiredAndOptional(Handler(tools, op.reqs[1].fn_name))
     /\ op.reqs[1].fn_arguments.k = "object") =>
        LET t == Handler(tools, op.reqs[1].fn_name)
            o == op.reqs[1].fn_arguments.o
        IN  /\ ("a" \in DOMAIN o /\ o.a.k = "string" /\ "b" \notin DOMAIN o) =>
                  /\ op.cnt[1].call = 1
                  /\ (t = "T2" \/ o.a.s # "") =>
                        /\ op.outcome.st = "ok"
                        /\ op.outcome.val[1].content =
                              ToJsonString(ToValue(Call(t, [a |-> [some |-> TRUE, s |-> o.a.s, n |-> 0],
                                                           b |-> NoField]).out).v)
            /\ "a" \notin DOMAIN o =>
                  /\ op.outcome.st = "err"
                  /\ op.outcome.err = SerdeError(<<"missing field ", "a">>)
                  /\ op.cnt[1].call = 0

\* C23, of both calls and of the descriptors that get_tools returned.
RequiredAndOptionalFields ==
    /\ RequiredAndOptionalOf(Fg)
    /\ RequiredAndOptionalOf(bg)
    /\ last.op = "get_tools" =>
          \A i \in 1..Len(last.descs) :
              \E e \in tools :
                  /\ e[1] = last.descs[i].name
                  /\ \A f \in DOMAIN ParamFields(e[2]) :
                        f \in last.descs[i].schema.required
                            <=> ParamFields(e[2])[f] \in {"String", "enum"}
                  /\ last.descs[i].schema.required \subseteq DOMAIN ParamFields(e[2])

\* On the registry that holds T1 under "x": the call with {"a": "y"} has returned
\* a response, the call with {} has failed, and get_tools has listed a as the
\* one required field.
RequiredOnlyReached ==
    /\ tools = {<<"x", "T1">>}
    /\ mode = "call" /\ bg.mode = "call"
    /\ reqs[1].fn_arguments = JObj([a |-> JStr("y")])
    /\ outcome.st = "ok"
    /\ bg.reqs[1].fn_arguments = JObj(NoMembers)
    /\ bg.outcome.st = "err"
    /\ last.op = "get_tools"
    /\ last.descs[1].schema.required = {"a"}

\* C26: under a fair executor and with invocations that all complete, an
\* execute_calls that is awaited resolves in the end; when it has resolved to
\* responses every invocation has returned a response; and it never stays
\* unresolved once an invocation has returned an error.
BatchEventuallyResolves ==
    /\ (mode = "calls" /\ outcome.st = "pending") ~> (outcome.st \in {"ok", "err"})
    /\ [](mode = "calls" /\ outcome.st = "ok" =>
             \A i \in 1..Len(reqs) : elems[i] = "done" /\ yielded[i].some /\ yielded[i].ok)
    /\ [](mode = "calls" /\ outcome.st = "pending" =>
             \A i \in 1..Len(reqs) : yielded[i].some => yielded[i].ok)

\* A batch of two calls that both suspended has resolved to the error of the
\* first call, whose work completed after the second's.
BatchResolvedAfterSuspensionsReached ==
    /\ mode = "calls"
    /\ Len(reqs) = 2
    /\ order = <<2, 1>>
    /\ cnt[1].call = 1 /\ cnt[2].call = 1
    /\ yielded[2].some /\ yielded[2].ok
    /\ outcome.st = "err"
    /\ outcome.err.ety = "IntegrationError"

\* C27: execute_call takes its steps in the order lookup, decoding, tool, encoding,
\* and the first that fails ends it with its error: a name the registry does not
\* hold gives the not-found error, whatever the arguments are, with call_json not
\* entered; arguments that do not decode give the error of the decoding, with the
\* tool's operation not entered; an error of the tool's operation is returned with
\* the operation entered once and nothing encoded; and the error of an encoding is
\* returned only after the tool's operation has returned an output.
FirstFailingStepDecides ==
    \A i \in 1..Len(reqs) :
        (yielded[i].some /\ ~yielded[i].ok) =>
            LET call == reqs[i]
                found == has_tool(tools, call.fn_name)
                t == Handler(tools, call.fn_name)
                d == DecodeParams(t, call.fn_arguments)
                e == yielded[i].err
            IN  /\ ~found =>
                      /\ e = NotFoundError(call.fn_name)
                      /\ cnt[i] = [json |-> 0, call |-> 0]
                /\ (found /\ ~d.ok) =>
                      /\ e = d.err
                      /\ cnt[i] = [json |-> 1, call |-> 0]
                /\ (found /\ d.ok /\ ~Call(t, d.p).ok) =>
                      /\ e = Call(t, d.p).err
                      /\ cnt[i] = [json |-> 1, call |-> 1]
                /\ (found /\ d.ok /\ Call(t, d.p).ok) =>
                      /\ ~ToValue(Call(t, d.p).out).ok
                      /\ e = ToValue(Call(t, d.p).out).err
                      /\ cnt[i] = [json |-> 1, call |-> 1]
                /\ cnt[i].call <= cnt[i].json

\* A call of a name the registry does not hold, with arguments that decode for no
\* tool, has failed with the not-found error, on a registry that holds a tool.
UnregisteredAndMalformedReached ==
    /\ mode = "call"
    /\ tools # {}
    /\ ~has_tool(tools, reqs[1].fn_name)
    /\ \A t \in ToolIds : ~DecodeParams(t, reqs[1].fn_arguments).ok
    /\ outcome.st = "err"
    /\ outcome.err = NotFoundError(reqs[1].fn_name)

\* C28: of the invocations of one execute_calls, at most one ever returns an error:
\* the first that does ends the batch with its error, and no other is polled after
\* it. And when the batch fails in its first poll with no invocation suspended (the
\* tools did not suspend), the failing invocation is that of the lowest index whose
\* call fails; every invocation before it has entered its tool, if it has one, and
\* returned a response; and no invocation after it has entered call_json or a
\* tool.
FirstErrorEndsBatch ==
    mode = "calls" =>
        /\ \A i, j \in 1..Len(reqs) :
              (yielded[i].some /\ ~yielded[i].ok /\ yielded[j].some /\ ~yielded[j].ok)
                  => i = j
        /\ \A i \in 1..Len(reqs) :
              (yielded[i].some /\ ~yielded[i].ok) => outcome = ErrOutcome(<<>>, yielded[i].err)

FailsInFirstPoll ==
    /\ mode = "calls"
    /\ \A i \in 1..Len(reqs) : elems[i] = "new"
    /\ outcome'.st = "err"
    /\ \A i \in 1..Len(reqs) : cnt'[i].call = 1 => yielded'[i].some

LowestFailingIndexEnds ==
    \E k \in 1..Len(reqs) :
        /\ ~ExecuteCallAlone(tools, reqs[k]).ok
        /\ \A i \in 1..(k - 1) : ExecuteCallAlone(tools, reqs[i]).ok
        /\ outcome'.err = ExecuteCallAlone(tools, reqs[k]).err
        /\ yielded'[k] = Err(outcome'.err)
        /\ \A i \in 1..(k - 1) :
              yielded'[i] = ExecuteCallAlone(tools, reqs[i]) /\ cnt'[i] = [json |-> 1, call |-> 1]
        /\ \A i \in (k + 1)..Len(reqs) :
              ~yielded'[i].some /\ cnt'[i] = [json |-> 0, call |-> 0]

\* C28, of every state and of every step of a batch.
BatchErrorIsFirstFailure ==
    /\ []FirstErrorEndsBatch
    /\ [][FailsInFirstPoll => LowestFailingIndexEnds]_vars

\* A batch of two calls that both fail on their own has failed with the error of
\* the first, a decoding error, and call_json of the second, whose name the
\* registry does not hold, was not entered.
BatchOfTwoFailuresReached ==
    /\ mode = "calls"
    /\ Len(reqs) = 2
    /\ has_tool(tools, reqs[1].fn_name)
    /\ ~has_tool(tools, reqs[2].fn_name)
    /\ ~ExecuteCallAlone(tools, reqs[1]).ok
    /\ outcome.st = "err"
    /\ outcome.err = ExecuteCallAlone(tools, reqs[1]).err
    /\ outcome.err.ety = "serde_json::Error"
    /\ ~yielded[2].some
    /\ cnt[2] = [json |-> 0, call |-> 0]

\* C29: execute_calls against execute_call. A single execute_call resolves to what
\* ExecuteCallAlone gives for its call. An execute_calls that resolved to responses
\* has, at each index, the response that execute_call returns for the call at that
\* index, and no call of it fails on its own; an execute_calls that resolved to an
\* error has a call that fails on its own, with that error. So it fails exactly
\* when execute_call fails on one of its calls.
BatchRefinesSingleCalls ==
    /\ (mode = "call" /\ outcome.st # "pending") =>
          /\ yielded[1] = ExecuteCallAlone(tools, reqs[1])
          /\ outcome.st = "ok" <=> ExecuteCallAlone(tools, reqs[1]).ok
          /\ outcome.st = "ok" => outcome.val = <<ExecuteCallAlone(tools, reqs[1]).resp>>
          /\ outcome.st = "err" => outcome.err = ExecuteCallAlone(tools, reqs[1]).err
    /\ (mode = "calls" /\ outcome.st # "pending") =>
          /\ outcome.st = "err" <=>
                \E i \in 1..Len(reqs) : ~ExecuteCallAlone(tools, reqs[i]).ok
          /\ outcome.st = "ok" =>
                outcome.val = [i \in 1..Len(reqs) |-> ExecuteCallAlone(tools, reqs[i]).resp]
          /\ outcome.st = "err" =>
                \E i \in 1..Len(reqs) :
                    ExecuteCallAlone(tools, reqs[i]) = Err(outcome.err)

\* A batch of a call of T1 and a call of T3 has resolved to their two responses,
\* which differ in content.
BatchOfTwoToolsReached ==
    /\ mode = "calls"
    /\ tools = {<<"x", "T1">>, <<"y", "T3">>}
    /\ Len(reqs) = 2
    /\ reqs[1].fn_name = "y" /\ reqs[2].fn_name = "x"
    /\ outcome.st = "ok"
    /\ outcome.val[1].content # outcome.val[2].content

\* C30: in every state of the registry each handler is stored under its own name,
\* and no name has two entries; register_function, register_functions, remove_tool,
\* clear and merge all leave it so, as the map before the last operation was.
KeyedByOwnName ==
    /\ \A e \in tools : e[1] = ToolName(e[2])
    /\ \A e1, e2 \in tools : e1[1] = e2[1] => e1 = e2
    /\ \A e \in last.pre : e[1] = ToolName(e[2])
    /\ \A e \in last.other : e[1] = ToolName(e[2])
    /\ \A n \in Keys(tools) : ToolName(Handler(tools, n)) = n

\* A registry that had a tool removed has been merged with one that holds two
\* tools, one of them under a name that the registry held: it holds two tools.
MergedAfterRemoveReached ==
    /\ last.op = "merge"
    /\ last.prior.op = "remove"
    /\ last.pre # {}
    /\ Cardinality(last.other) = 2
    /\ Keys(last.pre) \subseteq Keys(last.other)
    /\ Cardinality(tools) = 2

\* C31: in every state of the registry the queries agree: len is the number of
\* names in tool_names and the number of descriptors of get_tools, in whatever
\* order the map yields them; the descriptors have the names of tool_names, each
\* once; has_tool is true of the names in tool_names and of no other; and is_empty
\* is true exactly when len is 0.
QueriesAgree ==
    /\ len(tools) = Cardinality(tool_names(tools))
    /\ \A ord \in ValuesOrders(tools) :
          /\ Len(get_tools(tools, ord)) = len(tools)
          /\ {get_tools(tools, ord)[i].name : i \in 1..Len(ord)} = tool_names(tools)
    /\ last.op = "get_tools" =>
          /\ Len(last.descs) = len(tools)
          /\ \A i, j \in 1..Len(last.descs) :
                last.descs[i].name = last.descs[j].name => i = j
    /\ \A n \in Names \cup ToolIds : has_tool(tools, n) <=> n \in tool_names(tools)
    /\ is_empty(tools) <=> len(tools) = 0

\* After a registry of two tools had one removed, get_tools has returned one
\* descriptor: len is 1, the one name is "y", and the registry is not empty.
QueriesAfterRemoveReached ==
    /\ last.op = "get_tools"
    /\ last.prior.op = "remove"
    /\ last.prior.ret
    /\ tools = {<<"y", "T3">>}
    /\ Len(last.descs) = 1
    /\ len(tools) = 1
    /\ tool_names(tools) = {"y"}
    /\ ~is_empty(tools)

\* C32: execute_call, execute_calls, get_tools, has_tool, tool_names, len and
\* is_empty leave the map as it is: no step of any of them changes an entry, a
\* step in which a call or a batch fails included, whichever step of the call
\* failed.
ReadsLeaveMap == [][tools' = tools]_vars

\* On the registry of T1 and T3, a batch has failed with T1's own error, after
\* get_tools and then the queries were answered while it was awaited.
BatchFailedBetweenReadsReached ==
    /\ tools = {<<"x", "T1">>, <<"y", "T3">>}
    /\ mode = "calls"
    /\ outcome.st = "err"
    /\ outcome.err.ety = "IntegrationError"
    /\ last.op = "query"
    /\ last.prior.op = "get_tools"
    /\ last.query = [has |-> TRUE, names |-> {"x", "y"}, count |-> 2, empty |-> FALSE]

\* C33: register_function and remove_tool change the entry of one name only. After
\* register_function of a tool named N every entry of another name is as before,
\* and len has grown by one if N was absent and is unchanged otherwise. After
\* remove_tool(N) every entry of another name is as before, and len has shrunk by
\* one if it returned true; if it returned false the map is as before.
OnlyOneNameChanges ==
    /\ last.op \in {"register", "remove"} =>
          /\ \A e \in last.pre : e[1] # last.name => e \in tools
          /\ \A e \in tools : e[1] # last.name => e \in last.pre
    /\ last.op = "register" =>
          /\ len(tools) = len(last.pre) + (IF has_tool(last.pre, last.name) THEN 0 ELSE 1)
          /\ len(tools) = len(last.pre) + 1 <=> ~has_tool(last.pre, last.name)
    /\ last.op = "remove" =>
          /\ len(tools) = len(last.pre) - (IF last.ret THEN 1 ELSE 0)
          /\ len(tools) = len(last.pre) - 1 <=> last.ret
          /\ ~last.ret => tools = last.pre

\* After register_function of a tool named "y" on a registry that held "x",
\* remove_tool("x") has returned true: the registry holds "y" alone.
RemovedOtherNameReached ==
    /\ last.op = "remove"
    /\ last.name = "x"
    /\ last.ret
    /\ last.prior.op = "register"
    /\ last.prior.name = "y"
    /\ Cardinality(last.pre) = 2
    /\ tools = {<<"y", "T3">>}

\* C34: execute_calls on an empty slice resolves at its first poll to Ok of an
\* empty vector, and no handler is entered for it. Whatever its calls share, their
\* call_id, their fn_name or both, a batch enters the handler at most once for each
\* call; when it has resolved to responses it has entered it exactly once for each
\* call, and the response at each index is the one execute_call returns for the
\* call at that index, under that call's call_id.
BatchOfAnyShape(op) ==
    /\ (op.mode = "calls" /\ op.reqs = <<>>) =>
          /\ op.outcome \in {Pending, [st |-> "ok", val |-> <<>>, err |-> NoError]}
          /\ op.cnt = <<>>
          /\ op.order = <<>>
    /\ op.mode = "calls" =>
          \A i \in 1..Len(op.reqs) : op.cnt[i].json <= 1 /\ op.cnt[i].call <= 1
    /\ (op.mode = "calls" /\ op.outcome.st = "ok") =>
          /\ Len(op.outcome.val) = Len(op.reqs)
          /\ \A i \in 1..Len(op.reqs) :
                /\ op.cnt[i] = [json |-> 1, call |-> 1]
                /\ op.outcome.val[i] = ExecuteCallAlone(tools, op.reqs[i]).resp
                /\ op.outcome.val[i].call_id = op.reqs[i].call_id

EmptyBatchResolvesAtFirstPoll ==
    (mode = "calls" /\ reqs = <<>> /\ outcome.st = "pending" /\ bg' = bg) =>
        /\ mode' = "calls"
        /\ outcome' = [st |-> "ok", val |-> <<>>, err |-> NoError]

EmptyAndRepeatedBatches ==
    /\ [](BatchOfAnyShape(Fg) /\ BatchOfAnyShape(bg))
    /\ [][EmptyBatchResolvesAtFirstPoll]_vars

\* One task's execute_calls on an empty slice has resolved to no responses; the
\* other's, on two calls with the same call_id and the same fn_name and different
\* arguments, has resolved to two responses that differ, the handler entered once
\* for each.
EmptyAndRepeatedResolvedReached ==
    /\ bg.mode = "calls"
    /\ bg.reqs = <<>>
    /\ bg.outcome = [st |-> "ok", val |-> <<>>, err |-> NoError]
    /\ mode = "calls"
    /\ Len(reqs) = 2
    /\ reqs[1].call_id = reqs[2].call_id
    /\ reqs[1].fn_name = reqs[2].fn_name
    /\ reqs[1].fn_arguments # reqs[2].fn_arguments
    /\ outcome.st = "ok"
    /\ outcome.val[1] # outcome.val[2]
    /\ cnt = <<[json |-> 1, call |-> 1], [json |-> 1, call |-> 1]>>

\* C35: to_upper_camel_case returns, character by character of its input: nothing
\* for an underscore; the upper case of a character that begins the input or
\* follows an underscore; the lower case of any other character. So the words
\* between underscores are joined, each with its first character upper-cased and
\* the others lower-cased, an empty word adds nothing, no underscore is left, and
\* "" gives "".
CamelOfChar(input, i) ==
    IF input[i] = "_" THEN <<>>
    ELSE IF i = 1 \/ input[i - 1] = "_" THEN ToUppercase(input[i])
    ELSE <<ToLowercaseChar(input[i])>>

RECURSIVE CamelUpTo(_, _)
CamelUpTo(input, n) ==
    IF n = 0 THEN <<>> ELSE CamelUpTo(input, n - 1) \o CamelOfChar(input, n)

CamelCaseByWords ==
    expansion.camel.some =>
        /\ expansion.camel.v = CamelUpTo(expansion.ident, Len(expansion.ident))
        /\ \A i \in 1..Len(expansion.camel.v) : expansion.camel.v[i] # "_"
        /\ expansion.ident = <<>> => expansion.camel.v = <<>>
        /\ (\A i \in 1..Len(expansion.ident) : expansion.ident[i] = "_") =>
              expansion.camel.v = <<>>

\* to_upper_camel_case("_aB_") has returned "Ab": the empty words before and after
\* added nothing, and the B was lower-cased.
CamelOfEmptyWordsReached ==
    /\ ~expansion.expanded
    /\ expansion.ident = <<"_", "a", "B", "_">>
    /\ expansion.camel = SomeStr(<<"A", "b">>)

=============================================================================
